---- MODULE Spec2Model ----
(***************************************************************************)
(* Price ingestion pipeline of gde-deshevle: the scrape job               *)
(* (server/src/cron/scrape-job.ts), the name matcher                       *)
(* (server/src/scrapers/normalizer.ts), the scraper registry and the       *)
(* manual scrape endpoints of server/src/app.ts, over a PostgreSQL prices  *)
(* table and a Redis cache.                                                *)
(*                                                                         *)
(* Characters are one-token strings.  Latin letters and digits stand for   *)
(* themselves; a lower-case Cyrillic letter is written "c" followed by     *)
(* its transliteration ("cl" is the Cyrillic el, "ckg" does not exist:     *)
(* the unit kg is the two characters "ck","cg").  A string is a sequence   *)
(* of characters.                                                          *)
(***************************************************************************)
EXTENDS Integers, Sequences, FiniteSets, TLC

\* ───────────────────────── bounds of the model ─────────────────────────
\* longest list of listings one adapter run returns
MaxListings == 2
\* the clock runs over 0..MaxTime (days)
MaxTime == 1
\* number of failures (of a database call, a Redis call) of one behaviour
MaxFaults == 2
\* the same, where two sweeps overlap
MaxOverlapFaults == 1
\* number of sweeps (cron firings plus manual requests) of one behaviour
MaxSweeps == 2
\* search keywords tried, of the 44 of SEARCH_KEYWORDS
MaxKeywords == 2
\* categories scraped, of the 9 or 10 of the category lists
MaxCategories == 2
\* items of a full page, 50 upstream
RecordsPerPage == 2
\* requests followed within one pagination loop
MaxRequests == 21
\* listings an adapter without deduplication may hold
MaxScraped == 4
\* largest maxRetries withRetry is called with; its default is 3
MaxRetries == 3
\* longest raw name enumerated character by character
MaxNameLen == 3
\* most pages the walk of one Vkusvill category asks the API for, and most
\* listings a Vkusvill run collects
MaxApiPages == 2

\* ───────────────────────── name matcher ─────────────────────────────────
Digit == {"0", "1", "2", "3", "4", "5", "6", "7", "8", "9"}
Space == {" "}
Latin == {"a", "b", "c", "d", "e", "f", "g", "h", "i", "j", "k", "l", "m",
          "n", "o", "p", "q", "r", "s", "t", "u", "v", "w", "x", "y", "z"}
Cyrillic == {"ca", "cg", "ck", "cl", "cm", "cp", "ct", "cu", "cch", "csh"}
UpperOf == [c \in {"A", "K", "M"} |->
              CASE c = "A" -> "a" [] c = "K" -> "k" [] c = "M" -> "m"]

\* String.prototype.toLowerCase
toLowerCase(s) ==
    [i \in 1..Len(s) |-> IF s[i] \in DOMAIN UpperOf THEN UpperOf[s[i]] ELSE s[i]]

\* first units of the quantity pattern, in the order of the alternation
Units == << <<"ck", "cg">>, <<"cg">>, <<"cl">>, <<"cm", "cl">>,
            <<"csh", "ct">>, <<"cu", "cp">>, <<"cp", "ca", "cch">>,
            <<"cp", "ca", "ck">>, <<"x">>, <<"times">> >>
\* units of the optional multi-pack group
PackUnits == << <<"cm", "cl">>, <<"cg">>, <<"ck", "cg">>, <<"cl">> >>

\* JavaScript passes values: F applied to the value of e (of d and e)
Strict(F(_), e) == CHOOSE r \in {F(x) : x \in {e}} : TRUE
Strict2(F(_, _), d, e) == CHOOSE r \in {F(x, y) : x \in {d}, y \in {e}} : TRUE

\* index after the longest run of characters of S that starts at i
RECURSIVE SkipWhile(_, _, _)
SkipWhile(s, i, S) ==
    IF i <= Len(s) /\ s[i] \in S THEN SkipWhile(s, i + 1, S) ELSE i

MatchLit(s, i, lit) ==
    /\ i + Len(lit) - 1 <= Len(s)
    /\ \A k \in 1..Len(lit) : s[i + k - 1] = lit[k]

\* index after the first alternative of alts that matches at i, 0 if none
RECURSIVE MatchAlt(_, _, _, _)
MatchAlt(s, i, alts, a) ==
    IF a > Len(alts) THEN 0
    ELSE IF MatchLit(s, i, alts[a]) THEN i + Len(alts[a])
    ELSE MatchAlt(s, i, alts, a + 1)

\* /\d+[\.,]?\d*\s*(unit)\s*(\d+\s*(packunit))?/ anchored at i:
\* the index after the match, 0 when there is none
QuantityEnd(s, i) ==
    LET a == SkipWhile(s, i, Digit)
        b == IF a <= Len(s) /\ s[a] \in {".", ","} THEN a + 1 ELSE a
        c == SkipWhile(s, b, Digit)
        d == SkipWhile(s, c, Space)
        e == MatchAlt(s, d, Units, 1)
        f == SkipWhile(s, e, Space)
        g == SkipWhile(s, f, Digit)
        h == SkipWhile(s, g, Space)
        k == IF g > f THEN MatchAlt(s, h, PackUnits, 1) ELSE 0
    IN  IF a = i \/ e = 0 THEN 0
        ELSE IF k # 0 THEN k ELSE f

\* .replace(quantity pattern, '') with the g flag
RECURSIVE StripQuantities(_, _)
StripQuantities(s, i) ==
    IF i > Len(s) THEN << >>
    ELSE LET Rest(j) == IF j # 0 THEN StripQuantities(s, j)
                        ELSE << s[i] >> \o StripQuantities(s, i + 1)
         IN  Strict(Rest, QuantityEnd(s, i))

\* .replace(/[^а-яёa-z0-9\s]/gi, ' ')
StripPunctuation(s) ==
    [i \in 1..Len(s) |->
        IF s[i] \in Latin \cup Cyrillic \cup Digit \cup Space \cup DOMAIN UpperOf
        THEN s[i] ELSE " "]

\* .replace(/\s+/g, ' ')
RECURSIVE CollapseSpaces(_, _)
CollapseSpaces(s, i) ==
    IF i > Len(s) THEN << >>
    ELSE IF s[i] \in Space
         THEN LET Rest(j) == << " " >> \o CollapseSpaces(s, j)
              IN  Strict(Rest, SkipWhile(s, i, Space))
         ELSE << s[i] >> \o CollapseSpaces(s, i + 1)

\* .trim()
Trim(s) ==
    LET a == SkipWhile(s, 1, Space)
        RECURSIVE Last(_)
        Last(j) == IF j >= a /\ s[j] \in Space THEN Last(j - 1) ELSE j
    IN  SubSeq(s, a, Last(Len(s)))

normalizeForComparison(raw) ==
    LET Quantities(s) == StripQuantities(s, 1)
        Whitespace(s) == CollapseSpaces(s, 1)
    IN  Strict(Trim, Strict(Whitespace, Strict(StripPunctuation,
               Strict(Quantities, Strict(toLowerCase, raw)))))

\* string-similarity's compareTwoStrings: the Dice coefficient over
\* character bigrams, as the fraction <<numerator, denominator>>
RemoveSpaces(s) == SelectSeq(s, LAMBDA ch : ch \notin Space)

Bigrams(s) == [i \in 1..(Len(s) - 1) |-> << s[i], s[i + 1] >>]

RemoveAt(q, n) == SubSeq(q, 1, n - 1) \o SubSeq(q, n + 1, Len(q))

RECURSIVE IntersectionSize(_, _, _)
IntersectionSize(firstBigrams, secondBigrams, i) ==
    IF i > Len(secondBigrams) THEN 0
    ELSE LET hits == {n \in 1..Len(firstBigrams) : firstBigrams[n] = secondBigrams[i]}
             Rest(remaining) == IntersectionSize(remaining, secondBigrams, i + 1)
         IN  IF hits = {} THEN IntersectionSize(firstBigrams, secondBigrams, i + 1)
             ELSE 1 + Strict(Rest, RemoveAt(firstBigrams,
                                            CHOOSE n \in hits : \A m \in hits : n <= m))

compareTwoStrings(a, b) ==
    LET Intersection(firstBigrams, secondBigrams) ==
            IntersectionSize(firstBigrams, secondBigrams, 1)
        Dice(first, second) ==
            IF first = second THEN << 1, 1 >>
            ELSE IF Len(first) < 2 \/ Len(second) < 2 THEN << 0, 1 >>
            ELSE << 2 * Strict2(Intersection, Bigrams(first), Bigrams(second)),
                    Len(first) + Len(second) - 2 >>
    IN  Strict2(Dice, RemoveSpaces(a), RemoveSpaces(b))

\* scores are fractions with a positive denominator
ScoreGE(p, q) == p[1] * q[2] >= q[1] * p[2]
\* a comparison that also lets an equal score through
ScoreNotBelow(p, q) == p[1] * q[2] >= q[1] * p[2]
ScoreGT(p, q) == p[1] * q[2] > q[1] * p[2]

\* a threshold one hundredth higher
HigherThreshold == << 66, 100 >>
\* Minimum similarity score to accept a match: 0.65
SIMILARITY_THRESHOLD == << 65, 100 >>
\* Math.max() of no arguments
NegInfinity == << -1, 1 >>

NoMatch == [productId |-> 0, similarity |-> NegInfinity]

\* Math.max(...scores)
RECURSIVE MaxScore(_, _)
MaxScore(scores, i) ==
    IF i > Len(scores) THEN NegInfinity
    ELSE LET Pick(rest) == IF ScoreGE(scores[i], rest) THEN scores[i] ELSE rest
         IN  Strict(Pick, MaxScore(scores, i + 1))

topScoreOf(normalizedRaw, canonical) ==
    LET normalized == << normalizeForComparison(canonical.name) >> \o
                      [a \in 1..Len(canonical.aliases) |->
                          normalizeForComparison(canonical.aliases[a])]
        candidates == SelectSeq(normalized, LAMBDA cand : cand # << >>)
        Scores(cands) == [c \in 1..Len(cands) |->
                            compareTwoStrings(normalizedRaw, cands[c])]
        Max(scores) == MaxScore(scores, 1)
    IN  Strict(Max, Strict(Scores, candidates))

RECURSIVE BestFrom(_, _, _, _)
BestFrom(normalizedRaw, canonicals, i, bestMatch) ==
    IF i > Len(canonicals) THEN bestMatch
    ELSE LET Update(topScore) ==
                 IF /\ ScoreGE(topScore, SIMILARITY_THRESHOLD)
                    /\ \/ bestMatch = NoMatch
                       \/ ScoreGT(topScore, bestMatch.similarity)
                 THEN [productId |-> canonicals[i].id, similarity |-> topScore]
                 ELSE bestMatch
             Continue(next) == BestFrom(normalizedRaw, canonicals, i + 1, next)
         IN  Strict(Continue, Strict(Update, topScoreOf(normalizedRaw, canonicals[i])))

findBestMatch(rawName, canonicals) ==
    LET Best(normalizedRaw) ==
            IF normalizedRaw = << >> THEN NoMatch
            ELSE BestFrom(normalizedRaw, canonicals, 1, NoMatch)
    IN  Strict(Best, normalizeForComparison(rawName))

\* ───────────────────────── registry and database ───────────────────────
\* Object.keys(scraperMap)
STORE_SLUGS == << "lenta", "perekrestok", "pyaterochka", "magnit", "vkusvill" >>
Slugs == {STORE_SLUGS[i] : i \in DOMAIN STORE_SLUGS}

\* the stores table after seed.sql (SERIAL ids in insertion order)
SeededStores ==
    [s \in Slugs |-> CASE s = "pyaterochka" -> 1 [] s = "magnit" -> 2
                       [] s = "lenta" -> 3 [] s = "perekrestok" -> 4
                       [] s = "vkusvill" -> 5]

\* the stores table of the database under study: the seeded rows, less the
\* row of one store the registry still scrapes (the case runStoreScape
\* answers with "Store slug ... not found in DB")
StoresTable == [s \in Slugs \ {"pyaterochka"} |-> SeededStores[s]]

\* loadStoreIds
loadStoreIds(table) == table

\* the products the catalog holds, as loadCanonicalProducts returns them
\* (ORDER BY p.id, aliases aggregated)
CanonicalProducts ==
    << [id |-> 1, name |-> << "m", "i", "l", "k" >>,
        aliases |-> << << "m", "i", "l", "k", " ", "3", ".", "2" >> >>],
       [id |-> 2, name |-> << "k", "e", "f", "i", "r" >>, aliases |-> << >>] >>

loadCanonicalProducts == CanonicalProducts

Null == "null"

\* what the sites serve: the listings an adapter run can collect, per store
Catalogue ==
    [s \in Slugs |->
       CASE s = "magnit" ->
              << [storeProductName |-> << "M", "i", "l", "k", " ", "1", "cl" >>,
                  price |-> 80, pricePerUnit |-> Null, url |-> "magnit/1"],
                 [storeProductName |-> << "t", "e", "a" >>,
                  price |-> 40, pricePerUnit |-> Null, url |-> "magnit/2"],
                 [storeProductName |-> << "m", "i", "l", "k", "y" >>,
                  price |-> 90, pricePerUnit |-> 95, url |-> "magnit/3"] >>
         [] s = "pyaterochka" ->
              << [storeProductName |-> << "k", "e", "f", "i", "r", " ", "5", "0", "0", "cg" >>,
                  price |-> 60, pricePerUnit |-> 120, url |-> "5ka/1"] >>
         [] OTHER -> << >>]

\* the read filter of getPricesForProducts, `scraped_at > NOW() - maxAge`
\* (24 hours there), evaluated at time `at`
Fresh(row, at, maxAge) == row.scraped_at > at - maxAge

\* the order-preserving sub-lists of q with at most n elements
RECURSIVE SubLists(_, _)
SubLists(q, n) ==
    IF q = << >> \/ n = 0 THEN {<< >>}
    ELSE SubLists(Tail(q), n) \cup
         {<< Head(q) >> \o t : t \in SubLists(Tail(q), n - 1)}

\* scrapeProducts of the store's adapter: sub-steps (keywords, categories,
\* pages) may fail softly, so any sub-list of the catalogue can come back
Feeds == [slug \in Slugs |-> SubLists(Catalogue[slug], MaxListings)]

\* findBestMatch(raw.storeProductName, canonicals) for every listing the
\* sites serve
ListingNames ==
    UNION {{Catalogue[s][i].storeProductName : i \in DOMAIN Catalogue[s]} : s \in Slugs}

MatchOf == [name \in ListingNames |-> findBestMatch(name, loadCanonicalProducts)]

\* a scrapeAll without its try/catch
scrapeAllRethrowing(feed, throws) == [threw |-> throws, products |-> feed]

\* BaseScraper.scrapeAll: a throwing scrapeProducts is caught and gives [];
\* threw tells whether scrapeAll itself rejects
scrapeAll(feed, throws) ==
    [threw |-> FALSE, products |-> IF throws THEN << >> ELSE feed]

\* the push-back of the mark-stale UPDATE: INTERVAL '7 days'
StaleDays == 7

\* rows of a table that belong to one store
StoreRows(table, storeId) == SelectSeq(table, LAMBDA r : r.store_id = storeId)

RowsOfSlug(table, storeTable, slug) ==
    IF slug \in DOMAIN storeTable THEN StoreRows(table, storeTable[slug]) ELSE << >>

\* a push-back of one day only
MarkStaleByOneDay(table, storeId, txNow) ==
    [i \in 1..Len(table) |->
        IF table[i].store_id = storeId
        THEN [table[i] EXCEPT !.scraped_at = txNow - 1]
        ELSE table[i]]

\* UPDATE prices SET scraped_at = NOW() - INTERVAL '7 days' WHERE store_id = $1
MarkStale(table, storeId, txNow) ==
    [i \in 1..Len(table) |->
        IF table[i].store_id = storeId
        THEN [table[i] EXCEPT !.scraped_at = txNow - StaleDays]
        ELSE table[i]]

\* the row the INSERT proposes
PriceRow(productId, storeId, raw, txNow) ==
    [product_id |-> productId, store_id |-> storeId, price |-> raw.price,
     price_per_unit |-> raw.pricePerUnit,
     store_product_name |-> raw.storeProductName,
     store_product_url |-> raw.url, scraped_at |-> txNow]

\* a conflict target that also compares the url
ConflictsOnUrlToo(r, row) ==
    /\ r.product_id = row.product_id /\ r.store_id = row.store_id
    /\ r.store_product_url = row.store_product_url

\* ON CONFLICT (product_id, store_id)
Conflicts(r, row) == r.product_id = row.product_id /\ r.store_id = row.store_id

\* a plain INSERT: the conflict clause is lost
UpsertWithoutConflictClause(table, row) == Append(table, row)

\* INSERT ... ON CONFLICT (product_id, store_id) DO UPDATE SET ...
Upsert(table, row) ==
    LET hits == {i \in 1..Len(table) : Conflicts(table[i], row)}
    IN  IF hits = {} THEN Append(table, row)
        ELSE [i \in 1..Len(table) |->
                IF i \in hits
                THEN [table[i] EXCEPT !.price = row.price,
                                      !.price_per_unit = row.price_per_unit,
                                      !.store_product_name = row.store_product_name,
                                      !.store_product_url = row.store_product_url,
                                      !.scraped_at = row.scraped_at]
                ELSE table[i]]

\* CHECK (price > 0)
PriceCheck(row) == row.price > 0

\* ───────────────────────── state ────────────────────────────────────────
\* the sweeps that can be in progress at once: the cron callback and the
\* request handlers are async functions of one process
Workers == {1, 2}

VARIABLES
    now,            \* the database clock, in days
    stores,         \* the stores table: slug -> id
    prices,         \* the committed rows of the prices table, in heap order
    cache,          \* the entries held by Redis: a key, as the sequence of
                    \* its ':' segments, and the value stored under it
    pc,             \* per sweep: the await it is suspended at
    sweep,          \* per sweep: trigger, position in the store list, allStats
    run,            \* per sweep: the locals of the runStoreScape in progress
    tx,             \* per sweep: the transaction of its database client
    response,       \* per sweep: what the request handler sent back
    sweepsStarted,  \* number of sweeps started so far
    faultsLeft,     \* number of calls that may still fail
    lastRun,        \* history, per store: the listings of its latest finished
                    \* run and whether that run committed
    adapter,        \* the locals of the scrapeProducts call in progress, and
                    \* history: the strategies called, the last response
    retry,          \* the locals of the withRetry call in progress, and
                    \* history: the errors caught, the waits made
    probe,          \* a call of a pure function under test (the matcher, a
                    \* price mapping, the optimizer): its arguments and
                    \* what it returned
    shoppingList    \* the ShoppingListStore of the app: its items, what
                    \* localStorage holds, and history: the last operation

\* the state of the scrape job and of the read path
scrapeVars == << now, stores, prices, cache, pc, sweep, run, tx, response, sweepsStarted,
                 faultsLeft, lastRun >>

vars == << scrapeVars, adapter, retry, probe, shoppingList >>

NewStats(slug) ==
    [store |-> slug, totalScraped |-> 0, matched |-> 0, inserted |-> 0, errors |-> 0]

\* the locals of runStoreScape at its start.  The fields after storeId are
\* history: the store's rows when the run started, the statements sent on
\* the client, how the run ended, the NOW() of its transaction, the number
\* of upserts its COMMIT made visible, whether a Redis call failed,
\* whether the adapter's fetch threw, how many clients the run took from
\* the pool and how many times it released one
NewRun(slug) ==
    [slug |-> slug, rawProducts |-> << >>, k |-> 1, stats |-> NewStats(slug),
     storeId |-> 0, before |-> << >>, log |-> << >>, outcome |-> "running",
     began |-> 0, applied |-> 0, cacheFailed |-> FALSE, adapterThrew |-> FALSE,
     acquired |-> 0, released |-> 0]

\* history: nothing is known of a store's previous run
NoRun == [feed |-> << >>, committed |-> FALSE]

NoTx == [status |-> "none", now |-> 0, updates |-> << >>, inserts |-> << >>, upserts |-> 0]

NoSweep == [kind |-> "none", requested |-> Null, plan |-> << >>, i |-> 0,
            allStats |-> << >>, ran |-> << >>]

NoResponse == [status |-> 0]

\* the table a transaction sees: the committed rows with its own updates
\* in place, followed by its own inserts (READ COMMITTED)
Visible(table, t) ==
    [i \in 1..Len(table) |-> IF i \in DOMAIN t.updates THEN t.updates[i] ELSE table[i]]
        \o t.inserts

\* record in t the table `after` that a statement of t produced from
\* Visible(table, t); the rows in `locked` are row-locked by the statement
WriteBack(table, t, after, locked) ==
    [t EXCEPT !.updates = [i \in (DOMAIN t.updates) \cup locked |-> after[i]],
              !.inserts = SubSeq(after, Len(table) + 1, Len(after))]

\* committed rows another open transaction holds a row lock on
LockedByOthers(w) ==
    UNION {DOMAIN tx[v].updates : v \in {u \in Workers \ {w} : tx[u].status \in {"active", "aborted"}}}

\* rows another open transaction has inserted and not yet committed
InsertedByOthers(w) ==
    UNION {{tx[v].inserts[j] : j \in DOMAIN tx[v].inserts} :
              v \in {u \in Workers \ {w} : tx[u].status \in {"active", "aborted"}}}

\* the writes stay visible although the transaction did not complete
AfterCommitKeepingWrites(table, t, done) ==
    IF t.status = "active" THEN Visible(table, t) ELSE table

\* every statement that succeeded stays, as without a transaction
AfterCommitStatementByStatement(table, t, done) ==
    IF done THEN Visible(table, t) ELSE table

\* the committed table once COMMIT has been answered: the writes of the
\* transaction become visible when the server completed it and no
\* statement of it had failed
AfterCommit(table, t, done) ==
    IF done /\ t.status = "active" THEN Visible(table, t) ELSE table

\* the connection is gone: the server rolls the transaction back
Lost(t) == [t EXCEPT !.status = "lost", !.updates = << >>, !.inserts = << >>]

\* no withRetry call is in progress
NoRetry ==
    [maxRetries |-> 0, attempt |-> 0, at |-> "idle", invocations |-> 0,
     errors |-> << >>, waits |-> << >>, lastError |-> Null, result |-> Null,
     thrown |-> Null]

\* the matcher has not been called
NoProbe ==
    [rawName |-> << >>, canonicals |-> << >>, at |-> "idle",
     normalizedRaw |-> << >>, bestMatch |-> NoMatch]

\* the shopping list of a first visit: no items, nothing in localStorage
NoList == [items |-> << >>, storage |-> << >>, last |-> [op |-> "new", productId |-> 0]]

\* the adapter at rest
NoAdapter ==
    [store |-> Null, at |-> "idle", keyword |-> 0, category |-> 0, page |-> 0,
     totalPages |-> 0, allProducts |-> << >>, searchWorked |-> FALSE,
     calls |-> << >>, requests |-> 0, body |-> [kind |-> "none"], verdict |-> "none",
     returned |-> << >>, products |-> << >>, attempt |-> 0, delayed |-> TRUE]

Init ==
    /\ now = 0
    /\ stores = StoresTable
    /\ prices = << >>
    /\ cache = {}
    /\ pc = [w \in Workers |-> "idle"]
    /\ sweep = [w \in Workers |-> NoSweep]
    /\ run = [w \in Workers |-> NewRun(Null)]
    /\ tx = [w \in Workers |-> NoTx]
    /\ response = [w \in Workers |-> NoResponse]
    /\ sweepsStarted = 0
    /\ faultsLeft = MaxFaults
    /\ lastRun = [s \in Slugs |-> NoRun]
    /\ shoppingList = NoList
    /\ adapter = NoAdapter
    /\ retry = NoRetry
    /\ probe = NoProbe

\* a call may fail while the behaviour has failures left
Fault(failed) ==
    /\ failed => faultsLeft > 0
    /\ faultsLeft' = IF failed THEN faultsLeft - 1 ELSE faultsLeft

\* ───────────────────────── sweeps ───────────────────────────────────────
\* the stores runScrapeNow iterates over when called with `requested`
\* (Null: no argument): its loop is `for (const slug of STORE_SLUGS)`
SweepPlan(requested) == STORE_SLUGS

\* the store names a client may put in POST /api/scrape/:store
RequestableStores == {"magnit", "dixy"}

\* a trigger arrives some days (possibly none) after the previous one; a
\* sweep itself takes a negligible part of a day
StartSweep(w, kind, requested) ==
    LET plan == SweepPlan(requested)
    IN  /\ pc[w] = "idle"
        /\ sweepsStarted < MaxSweeps
        /\ sweepsStarted' = sweepsStarted + 1
        /\ \E t \in now..MaxTime : now' = t
        /\ sweep' = [sweep EXCEPT ![w] = [kind |-> kind, requested |-> requested,
                                          plan |-> plan, i |-> 1,
                                          allStats |-> << >>, ran |-> << >>]]
        /\ run' = [run EXCEPT ![w] = NewRun(plan[1])]
        /\ response' = [response EXCEPT ![w] = NoResponse]
        /\ pc' = [pc EXCEPT ![w] = "scrape"]
        /\ UNCHANGED << shoppingList, adapter, retry, probe, stores, prices, cache, tx, faultsLeft, lastRun >>

\* cron.schedule callback of startScrapeJob
CronFire(w) == StartSweep(w, "cron", Null)

\* POST /api/scrape
PostScrape(w) == StartSweep(w, "api", Null)

\* POST /api/scrape/:store
PostScrapeStore(w, store) ==
    IF store \notin Slugs
    THEN /\ pc[w] = "idle"
         /\ response' = [response EXCEPT ![w] = [status |-> 400]]
         /\ UNCHANGED << shoppingList, adapter, retry, probe, now, stores, prices, cache, pc, sweep, run, tx, sweepsStarted, faultsLeft, lastRun >>
    ELSE StartSweep(w, "apiStore", store)

\* a catch block that rethrows
OuterCatchRethrowing(r) == [r EXCEPT !.stats.errors = @ + 1, !.outcome = "threw"]

\* the catch block that closes runStoreScape: count the error, fall through
\* to `return stats`
OuterCatch(r) ==
    [r EXCEPT !.stats.errors = @ + 1,
              !.outcome = IF @ = "running" THEN "fatal" ELSE @]

\* ───────────────────────── runStoreScape ────────────────────────────────
\* a variant that never takes the early return
NeverSkipsPersistence(rawProducts) == FALSE

\* if (rawProducts.length === 0): stamp the duration and return the stats
SkipsPersistence(rawProducts) == Len(rawProducts) = 0

\* const rawProducts = await scraper.scrapeAll()
ScrapeAll(w) ==
    /\ pc[w] = "scrape"
    /\ \E feed \in Feeds[run[w].slug], throws \in BOOLEAN :
         LET scraped == scrapeAll(feed, throws)
             rawProducts == scraped.products
             started == [run[w] EXCEPT !.adapterThrew = throws,
                                       !.before = RowsOfSlug(prices, stores, run[w].slug)]
             r == [started EXCEPT !.rawProducts = rawProducts,
                                  !.stats.totalScraped = Len(rawProducts)]
         IN  /\ sweep' = [sweep EXCEPT ![w].ran = Append(@, run[w].slug)]
             /\ IF scraped.threw
                THEN /\ run' = [run EXCEPT ![w] = OuterCatch(started)]
                     /\ pc' = [pc EXCEPT ![w] = "done"]
                ELSE IF SkipsPersistence(rawProducts)
                THEN /\ run' = [run EXCEPT ![w] = [r EXCEPT !.outcome = "empty"]]
                     /\ pc' = [pc EXCEPT ![w] = "done"]
                ELSE /\ run' = [run EXCEPT ![w] = r]
                     /\ pc' = [pc EXCEPT ![w] = "load"]
    /\ UNCHANGED << shoppingList, adapter, retry, probe, now, stores, prices, cache, tx, response, sweepsStarted, faultsLeft, lastRun >>

\* await Promise.all([loadCanonicalProducts(), loadStoreIds()]) and the
\* lookup of the store id
Load(w) ==
    /\ pc[w] = "load"
    /\ \E ok \in BOOLEAN :
         LET storeIds == loadStoreIds(stores)
         IN  /\ Fault(~ok)
             /\ IF ok /\ run[w].slug \in DOMAIN storeIds
                THEN /\ run' = [run EXCEPT ![w].storeId = storeIds[run[w].slug]]
                     /\ pc' = [pc EXCEPT ![w] = "connect"]
                ELSE /\ run' = [run EXCEPT ![w] = OuterCatch(run[w])]
                     /\ pc' = [pc EXCEPT ![w] = "done"]
    /\ UNCHANGED << shoppingList, adapter, retry, probe, now, stores, prices, cache, sweep, tx, response, sweepsStarted, lastRun >>

\* const client = await pool.connect()
Connect(w) ==
    /\ pc[w] = "connect"
    /\ \E ok \in BOOLEAN :
         /\ Fault(~ok)
         /\ IF ok
            THEN /\ run' = [run EXCEPT ![w].acquired = @ + 1]
                 /\ pc' = [pc EXCEPT ![w] = "begin"]
            ELSE /\ run' = [run EXCEPT ![w] = OuterCatch(run[w])]
                 /\ pc' = [pc EXCEPT ![w] = "done"]
    /\ UNCHANGED << shoppingList, adapter, retry, probe, now, stores, prices, cache, sweep, tx, response, sweepsStarted, lastRun >>

\* BEGIN followed directly by the loop over the listings
BeginWithoutMarkStale(w) ==
    /\ pc[w] = "begin"
    /\ tx' = [tx EXCEPT ![w] = [NoTx EXCEPT !.status = "active", !.now = now]]
    /\ run' = [run EXCEPT ![w].log = Append(@, "BEGIN"), ![w].began = now]
    /\ pc' = [pc EXCEPT ![w] = "upsert"]
    /\ UNCHANGED << shoppingList, adapter, retry, probe, now, stores, prices, cache, sweep, response, sweepsStarted,
                    faultsLeft, lastRun >>

\* await client.query('BEGIN'); NOW() is the start time of the transaction
Begin(w) ==
    /\ pc[w] = "begin"
    /\ \E result \in {"ok", "lost"} :
         /\ Fault(result # "ok")
         /\ tx' = [tx EXCEPT ![w] = IF result = "ok"
                                    THEN [NoTx EXCEPT !.status = "active", !.now = now]
                                    ELSE Lost(NoTx)]
         /\ run' = [run EXCEPT ![w].log = Append(@, "BEGIN"), ![w].began = now]
         /\ pc' = [pc EXCEPT ![w] = IF result = "ok" THEN "markStale" ELSE "rollback"]
    /\ UNCHANGED << shoppingList, adapter, retry, probe, now, stores, prices, cache, sweep, response, sweepsStarted, lastRun >>

\* await client.query(`UPDATE prices SET scraped_at = NOW() - INTERVAL '7 days' ...`)
MarkStaleStep(w) ==
    /\ pc[w] = "markStale"
    /\ \E result \in {"ok", "error", "lost"} :
         LET t == tx[w]
             seen == Visible(prices, t)
             locked == {i \in 1..Len(prices) : prices[i].store_id = run[w].storeId}
         IN  /\ Fault(result # "ok")
             /\ result = "ok" => locked \cap LockedByOthers(w) = {}
             /\ tx' = [tx EXCEPT ![w] =
                         CASE result = "ok" ->
                                WriteBack(prices, t, MarkStale(seen, run[w].storeId, t.now), locked)
                           [] result = "error" -> [t EXCEPT !.status = "aborted"]
                           [] result = "lost" -> Lost(t)]
             /\ pc' = [pc EXCEPT ![w] = IF result = "ok" THEN "upsert" ELSE "rollback"]
    /\ run' = [run EXCEPT ![w].log = Append(@, "UPDATE")]
    /\ UNCHANGED << shoppingList, adapter, retry, probe, now, stores, prices, cache, sweep, response, sweepsStarted, lastRun >>

\* a variant that counts a match only once its query has succeeded
CountedAfterQuery(stats, ok) ==
    IF ok THEN [stats EXCEPT !.matched = @ + 1, !.inserted = @ + 1]
    ELSE [stats EXCEPT !.errors = @ + 1]

\* the counters of an iteration that found a match: stats.matched++ before
\* the query, stats.inserted++ after it, stats.errors++ in the row catch
Counted(stats, ok) ==
    [stats EXCEPT !.matched = @ + 1,
                  !.inserted = IF ok THEN @ + 1 ELSE @,
                  !.errors = IF ok THEN @ ELSE @ + 1]

\* one iteration of `for (const raw of rawProducts)`: match, upsert, count;
\* a failing query is caught by the row-level catch
LoopIteration(w) ==
    /\ pc[w] = "upsert"
    /\ LET r == run[w]
           t == tx[w]
           raw == r.rawProducts[r.k]
           match == MatchOf[raw.storeProductName]
           row == PriceRow(match.productId, r.storeId, raw, t.now)
           seen == Visible(prices, t)
           locked == {i \in 1..Len(prices) : Conflicts(prices[i], row)}
           nextPc == IF r.k + 1 > Len(r.rawProducts) THEN "commit" ELSE "upsert"
       IN  IF match = NoMatch
           THEN /\ run' = [run EXCEPT ![w].k = @ + 1]
                /\ tx' = tx
                /\ pc' = [pc EXCEPT ![w] = nextPc]
                /\ faultsLeft' = faultsLeft
           ELSE \E result \in {"ok", "error", "lost"} :
                  /\ Fault(result # "ok" /\ t.status = "active")
                  /\ result = "ok" =>
                       /\ t.status = "active"
                       /\ PriceCheck(row)
                       /\ locked \cap LockedByOthers(w) = {}
                       /\ \A o \in InsertedByOthers(w) : ~Conflicts(o, row)
                  /\ result = "error" => t.status \in {"active", "aborted"}
                  /\ tx' = [tx EXCEPT ![w] =
                              CASE result = "ok" ->
                                     [WriteBack(prices, t, Upsert(seen, row), locked)
                                        EXCEPT !.upserts = @ + 1]
                                [] result = "error" -> [t EXCEPT !.status = "aborted"]
                                [] result = "lost" -> Lost(t)]
                  /\ run' = [run EXCEPT
                               ![w].k = @ + 1,
                               ![w].log = Append(@, "INSERT"),
                               ![w].stats = Counted(@, result = "ok")]
                  /\ pc' = [pc EXCEPT ![w] = nextPc]
    /\ UNCHANGED << shoppingList, adapter, retry, probe, now, stores, prices, cache, sweep, response, sweepsStarted, lastRun >>

\* a variant that releases the client after the try statement instead of in
\* a finally block: a ROLLBACK that throws leaves the block without it
ReleaseAfterTry(r, rollbackThrew) ==
    IF rollbackThrew THEN r ELSE [r EXCEPT !.released = @ + 1]

\* finally { client.release() }: runs however the try and catch blocks end
Finally(r, rollbackThrew) == [r EXCEPT !.released = @ + 1]

\* await client.query('COMMIT').  PostgreSQL answers COMMIT of a
\* transaction in which a statement failed by rolling it back, without an
\* error.  A COMMIT that is rejected failed before the server completed it
CommitStep(w) ==
    /\ pc[w] = "commit"
    /\ \E result \in {"ok", "lost"} :
         LET t == tx[w]
             done == result = "ok" /\ t.status \in {"active", "aborted"}
         IN  /\ Fault(result # "ok" /\ t.status # "lost")
             /\ result = "ok" => t.status # "lost"
             /\ prices' = AfterCommit(prices, t, done)
             /\ tx' = [tx EXCEPT ![w] = IF done THEN NoTx ELSE Lost(t)]
             /\ run' = [run EXCEPT ![w] =
                          LET r == [@ EXCEPT
                                      !.log = Append(@, "COMMIT"),
                                      !.applied = IF done /\ t.status = "active"
                                                  THEN t.upserts ELSE 0,
                                      !.outcome = IF done
                                                  THEN (IF t.status = "active"
                                                        THEN "committed" ELSE "discarded")
                                                  ELSE @]
                          IN  IF done THEN Finally(r, FALSE) ELSE r]
             /\ pc' = [pc EXCEPT ![w] = IF done THEN "cache" ELSE "rollback"]
    /\ UNCHANGED << shoppingList, adapter, retry, probe, now, stores, cache, sweep, response, sweepsStarted, lastRun >>

\* a variant whose catch block does not rethrow: the run goes on to the
\* cache invalidation
TxCatchSwallowing == "cache"

\* `throw txErr` leaves the try block for the outer catch, after which the
\* stats are returned
TxCatchExit == "done"

\* catch (txErr) { await client.query('ROLLBACK'); throw txErr } finally
\* { client.release() }, then the outer catch
RollbackStep(w) ==
    /\ pc[w] = "rollback"
    /\ \E result \in {"ok", "lost"} :
         /\ Fault(result # "ok" /\ tx[w].status # "lost")
         /\ result = "ok" => tx[w].status # "lost"
         /\ run' = [run EXCEPT ![w] =
                      OuterCatch(Finally([run[w] EXCEPT
                                            !.log = Append(@, "ROLLBACK"),
                                            !.outcome = IF result = "ok" THEN "rolledback"
                                                        ELSE "rollbackFailed"],
                                         result # "ok"))]
    /\ tx' = [tx EXCEPT ![w] = NoTx]
    /\ pc' = [pc EXCEPT ![w] = TxCatchExit]
    /\ UNCHANGED << shoppingList, adapter, retry, probe, now, stores, prices, cache, sweep, response, sweepsStarted, lastRun >>

\* the glob `prices:*:${storeId}` of redisClient.keys
MatchesPattern(key, storeId) ==
    Len(key) >= 3 /\ key[1] = "prices" /\ key[Len(key)] = storeId

\* a variant whose failure reaches the outer catch
CacheCatchRethrowing(r) == OuterCatch([r EXCEPT !.cacheFailed = TRUE])

\* catch (cacheErr) { console.warn(...) }
CacheCatch(r) == [r EXCEPT !.cacheFailed = TRUE]

\* the cache invalidation block: keys, then del when any key matched; its
\* own catch swallows a failure of either call
InvalidateCache(w) ==
    /\ pc[w] = "cache"
    /\ \E keysOk \in BOOLEAN, delOk \in BOOLEAN :
         LET keys == {e \in cache : MatchesPattern(e.key, run[w].storeId)}
             sent == [run[w] EXCEPT
                        !.log = @ \o << "KEYS" >> \o
                                (IF keysOk /\ keys # {} THEN << "DEL" >> ELSE << >>)]
         IN  /\ Fault(~keysOk \/ (keys # {} /\ ~delOk))
             /\ run' = [run EXCEPT ![w] = IF ~keysOk \/ (keys # {} /\ ~delOk)
                                          THEN CacheCatch(sent) ELSE sent]
             /\ cache' = IF keysOk /\ keys # {} /\ delOk THEN cache \ keys ELSE cache
    /\ pc' = [pc EXCEPT ![w] = "done"]
    /\ UNCHANGED << shoppingList, adapter, retry, probe, now, stores, prices, sweep, tx, response, sweepsStarted, lastRun >>

\* what the request handler answers once runScrapeNow has returned
Respond(kind, requested, allStats) ==
    CASE kind = "api" -> [status |-> 200, stores |-> allStats]
      [] kind = "apiStore" ->
           [status |-> 200, store |-> requested,
            stats |-> IF Len(allStats) > 0 THEN allStats[1] ELSE Null]
      [] OTHER -> NoResponse

\* a variant whose loop goes on without the stats of the run
pushNothing(allStats, stats) == allStats

\* const stats = await runStoreScape(slug); allStats.push(stats)
push(allStats, stats) == Append(allStats, stats)

\* `return stats` of runStoreScape, allStats.push(stats), and the next turn
\* of the loop over the stores or the return of the sweep.  A rejected
\* runStoreScape would end the sweep: neither loop catches, and the request
\* handlers answer 500
ReturnStats(w) ==
    /\ pc[w] = "done"
    /\ LET sw == sweep[w]
           allStats == push(sw.allStats, run[w].stats)
       IN  IF run[w].outcome = "threw"
           THEN /\ sweep' = [sweep EXCEPT ![w].i = 0]
                /\ run' = [run EXCEPT ![w] = NewRun(Null)]
                /\ pc' = [pc EXCEPT ![w] = "idle"]
                /\ response' = [response EXCEPT ![w] = [status |-> 500]]
           ELSE IF sw.i < Len(sw.plan)
           THEN /\ sweep' = [sweep EXCEPT ![w].allStats = allStats, ![w].i = @ + 1]
                /\ run' = [run EXCEPT ![w] = NewRun(sw.plan[sw.i + 1])]
                /\ pc' = [pc EXCEPT ![w] = "scrape"]
                /\ response' = response
           ELSE /\ sweep' = [sweep EXCEPT ![w].allStats = allStats, ![w].i = 0]
                /\ run' = [run EXCEPT ![w] = NewRun(Null)]
                /\ pc' = [pc EXCEPT ![w] = "idle"]
                /\ response' = [response EXCEPT ![w] = Respond(sw.kind, sw.requested, allStats)]
    /\ lastRun' = [lastRun EXCEPT ![run[w].slug] =
                     [feed |-> run[w].rawProducts,
                      committed |-> run[w].outcome = "committed"]]
    /\ UNCHANGED << shoppingList, adapter, retry, probe, now, stores, prices, cache, tx, sweepsStarted, faultsLeft >>

\* the steps of the runStoreScape of sweep w
RunStep(w) ==
    \/ ScrapeAll(w)
    \/ Load(w)
    \/ Connect(w)
    \/ Begin(w)
    \/ MarkStaleStep(w)
    \/ LoopIteration(w)
    \/ CommitStep(w)
    \/ RollbackStep(w)
    \/ InvalidateCache(w)
    \/ ReturnStats(w)

\* one sweep at a time: every trigger arrives after the previous sweep
\* has returned
Next ==
    \/ CronFire(1)
    \/ PostScrape(1)
    \/ \E store \in RequestableStores : PostScrapeStore(1, store)
    \/ RunStep(1)

Spec == Init /\ [][Next]_vars

\* a manual sweep and the scheduled sweep in progress at once
InitOverlap ==
    /\ now = 0
    /\ stores = StoresTable
    /\ prices = << >>
    /\ cache = {}
    /\ pc = [w \in Workers |-> "idle"]
    /\ sweep = [w \in Workers |-> NoSweep]
    /\ run = [w \in Workers |-> NewRun(Null)]
    /\ tx = [w \in Workers |-> NoTx]
    /\ response = [w \in Workers |-> NoResponse]
    /\ sweepsStarted = 0
    /\ faultsLeft = MaxOverlapFaults
    /\ lastRun = [s \in Slugs |-> NoRun]
    /\ shoppingList = NoList
    /\ adapter = NoAdapter
    /\ retry = NoRetry
    /\ probe = NoProbe

\* the manual request and the cron firing of the overlap, both on one day
ManualSweep == sweep[1].kind = "none" /\ PostScrape(1) /\ now' = now
ScheduledSweep == sweep[2].kind = "none" /\ CronFire(2) /\ now' = now

NextOverlap ==
    \/ ManualSweep
    \/ ScheduledSweep
    \/ \E w \in Workers : RunStep(w)

SpecOverlap == InitOverlap /\ [][NextOverlap]_vars

\* ───────────────────────── price read path ──────────────────────────────
\* the productIds of the GET /api/prices requests
RequestedIds == {<< 1 >>, << 2, 1 >>}

\* pricesCacheKey: `prices:${sorted ids joined by ','}`; the joined ids are
\* one segment, written as the sequence [...productIds].sort((a, b) => a - b)
pricesCacheKey(productIds) ==
    LET RECURSIVE SortIds(_)
        SortIds(ids) ==
            IF ids = << >> THEN << >>
            ELSE LET lowest == CHOOSE x \in {ids[i] : i \in 1..Len(ids)} :
                                   \A i \in 1..Len(ids) : x <= ids[i]
                     at == CHOOSE i \in 1..Len(ids) : ids[i] = lowest
                 IN  << lowest >> \o SortIds(RemoveAt(ids, at))
    IN  << "prices", SortIds(productIds) >>

\* the freshness window of the read query: INTERVAL '24 hours', in days
FreshDays == 1

\* the SELECT of getPricesForProducts at time `at`, with its
\* ORDER BY pr.product_id, pr.price
QueryPrices(table, storeTable, productIds, at) ==
    LET Before(a, b) ==
            \/ a.product_id < b.product_id
            \/ a.product_id = b.product_id /\ a.price <= b.price
        RECURSIVE OrderRows(_)
        OrderRows(rows) ==
            IF rows = << >> THEN << >>
            ELSE LET first == CHOOSE i \in 1..Len(rows) :
                                  /\ \A j \in 1..Len(rows) : Before(rows[i], rows[j])
                                  /\ \A j \in 1..(i - 1) : ~Before(rows[j], rows[i])
                 IN  << rows[first] >> \o OrderRows(RemoveAt(rows, first))
    IN  OrderRows(SelectSeq(table, LAMBDA r :
            /\ \E i \in 1..Len(productIds) : productIds[i] = r.product_id
            /\ \E slug \in DOMAIN storeTable : storeTable[slug] = r.store_id
            /\ Fresh(r, at, FreshDays)))

\* getPricesForProducts, for a request the route passed on: a cached value
\* is returned as it is; otherwise the rows are read and cached with
\* redisClient.setex, which replaces the entry under the key.  A Redis
\* failure on either side is caught
GetPricesForProducts(productIds) ==
    /\ productIds # << >>
    /\ \E getOk \in BOOLEAN, setOk \in BOOLEAN :
         LET cacheKey == pricesCacheKey(productIds)
             cached == {e \in cache : e.key = cacheKey}
             hit == getOk /\ cached # {}
             rows == QueryPrices(prices, stores, productIds, now)
             setex == {e \in cache : e.key # cacheKey} \cup
                      {[key |-> cacheKey, value |-> rows]}
         IN  /\ Fault(~getOk \/ (~hit /\ ~setOk))
             /\ cache' = IF hit \/ ~setOk THEN cache ELSE setex
    /\ UNCHANGED << shoppingList, adapter, retry, probe, now, stores, prices, pc, sweep, run, tx, response, sweepsStarted, lastRun >>

\* an entry reaches its CACHE_TTL
Expire ==
    /\ \E e \in cache : cache' = cache \ {e}
    /\ UNCHANGED << shoppingList, adapter, retry, probe, now, stores, prices, pc, sweep, run, tx, response, sweepsStarted,
                    faultsLeft, lastRun >>

\* what the Redis at REDIS_URL holds when the server connects to it: an entry
\* under a key of the shape the invalidation pattern names,
\* prices:<product ids>:<store id>
ForeignEntries ==
    {[key |-> << "prices", << 1 >>, SeededStores["magnit"] >>, value |-> << >>]}

\* reads of prices while manual sweeps run, all within one day
InitCache ==
    /\ now = 0
    /\ stores = StoresTable
    /\ prices = << >>
    /\ cache = ForeignEntries
    /\ pc = [w \in Workers |-> "idle"]
    /\ sweep = [w \in Workers |-> NoSweep]
    /\ run = [w \in Workers |-> NewRun(Null)]
    /\ tx = [w \in Workers |-> NoTx]
    /\ response = [w \in Workers |-> NoResponse]
    /\ sweepsStarted = 0
    /\ faultsLeft = MaxOverlapFaults
    /\ lastRun = [s \in Slugs |-> NoRun]
    /\ shoppingList = NoList
    /\ adapter = NoAdapter
    /\ retry = NoRetry
    /\ probe = NoProbe

NextCache ==
    \/ PostScrape(1) /\ now' = now
    \/ RunStep(1)
    \/ \E productIds \in RequestedIds : GetPricesForProducts(productIds)
    \/ Expire

SpecCache == InitCache /\ [][NextCache]_vars

\* every awaited call of a run settles: runStoreScape goes on after each
\* await
SpecFair == InitOverlap /\ [][Next]_vars /\ WF_vars(RunStep(1))

\* ───────────────────────── store adapters ───────────────────────────────
\* if (allProducts.size < 50): the catalog supplements the other strategies
SupplementBelow == 50

\* if (page > 20) break
PageCap == 20

\* the page size MagnitScraper asks for
PAGE_SIZE == 36

\* the item lists a JSON page can hold: none, a full page, a short page
\* with a product of the full page at another price, a short page with an
\* item that has no price, a page of two products that carry neither a
\* URL nor a slug nor an id.  An upstream item carries a name, a price and
\* a product URL
Pages ==
    LET ItemA == [name |-> "milk", price |-> 80, url |-> "/p/1"]
        ItemA2 == [name |-> "milk", price |-> 85, url |-> "/p/1"]
        ItemB == [name |-> "kefir", price |-> 60, url |-> "/p/2"]
        ItemZ == [name |-> "bag", price |-> 0, url |-> "/p/3"]
        ItemU == [name |-> "rice", price |-> 70, url |-> Null]
        ItemV == [name |-> "salt", price |-> 20, url |-> Null]
    IN  {<< >>, [i \in 1..RecordsPerPage |-> IF i = 1 THEN ItemA ELSE ItemB],
         << ItemA2 >>, << ItemZ >>, << ItemU, ItemV >>}

\* the bodies of the challenge and error pages of the upstream WAFs
HtmlPages ==
    {<< "<", "!", "D", "O", "C", "T", "Y", "P", "E", " ", "h", "t", "m", "l", ">" >>,
     << " ", "<", "h", "t", "m", "l", ">" >>,
     << "<", "!", "d", "o", "c", "t", "y", "p", "e", " ", "h", "t", "m", "l", ">" >>}

\* what axios hands back for the request of page `page`: a rejection, a
\* body that did not parse as JSON and is left a string, or a parsed body
\* with its items and its signal for more pages (next, or a pagination
\* whose total is the pages asked for so far or one page more)
Responses(page) ==
    {[kind |-> "error"]}
    \cup {[kind |-> "string", text |-> t] : t \in HtmlPages}
    \cup {[kind |-> "json", items |-> items, next |-> more,
           pagination |-> [present |-> paged,
                           total |-> IF ~paged THEN 0
                                     ELSE (IF more THEN page + 1 ELSE page) * PAGE_SIZE,
                           size |-> PAGE_SIZE]] :
            items \in Pages, more \in BOOLEAN, paged \in BOOLEAN}

\* BaseScraper.isHtmlResponse
isHtmlResponse(body) ==
    IF body.kind # "string" THEN FALSE
    ELSE LET trimmed == SubSeq(body.text, SkipWhile(body.text, 1, Space), Len(body.text))
         IN  \/ MatchLit(trimmed, 1, << "<", "!", "D", "O", "C", "T", "Y", "P", "E" >>)
             \/ MatchLit(trimmed, 1, << "<", "h", "t", "m", "l" >>)

\* data.products ?? data.items ?? data.results ?? [], also of a string body
ItemsOf(body) == IF body.kind = "json" THEN body.items ELSE << >>

\* `${this.baseUrl}/product/${item.slug ?? id}/` with id = String(item.id
\* ?? item.plu ?? item.name), for an item that has a name only
ProductUrlOfName(name) ==
    CASE name = "rice" -> "/product/rice/"
      [] name = "salt" -> "/product/salt/"
      [] OTHER -> "/product/"

\* mapSearchProduct, mapSpecialOffer and the loop body of
\* scrapeCategoryById: an item without a name or a positive price is
\* dropped; an item without a URL gets one made of its slug or id
MapItems(items) ==
    LET kept == SelectSeq(items, LAMBDA item : item.name # Null /\ item.price > 0)
    IN  [i \in 1..Len(kept) |->
            [storeProductName |-> kept[i].name, price |-> kept[i].price,
             pricePerUnit |-> Null,
             url |-> IF kept[i].url # Null THEN kept[i].url
                     ELSE ProductUrlOfName(kept[i].name)]]

\* LentaScraper.mapGood over the goods of a body: an item without a name or
\* a positive price is dropped; an item without url and slug gets
\* `${this.baseUrl}/catalog/`
mapGood(goods) ==
    LET kept == SelectSeq(goods, LAMBDA item : item.name # Null /\ item.price > 0)
    IN  [i \in 1..Len(kept) |->
            [storeProductName |-> kept[i].name, price |-> kept[i].price,
             pricePerUnit |-> Null,
             url |-> IF kept[i].url # Null THEN kept[i].url ELSE "/catalog/"]]

\* for (const p of products) allProducts.set(p.url, p): a Map keeps the
\* place of a key it already has and takes the new value
RECURSIVE SetAll(_, _)
SetAll(allProducts, products) ==
    IF products = << >> THEN allProducts
    ELSE LET p == Head(products)
             held == {i \in 1..Len(allProducts) : allProducts[i].url = p.url}
         IN  SetAll(IF held = {} THEN Append(allProducts, p)
                    ELSE [allProducts EXCEPT ![CHOOSE i \in held : TRUE] = p],
                    Tail(products))

\* a handler that lets go of the products held when a request is rejected
HandledDroppingOnError(a, resp) ==
    [a EXCEPT !.body = resp,
              !.requests = @ + 1,
              !.delayed = FALSE,
              !.allProducts = IF resp.kind = "error" THEN << >> ELSE @,
              !.verdict = CASE resp.kind = "error" -> "failed"
                            [] isHtmlResponse(resp) -> "blocked"
                            [] OTHER -> "parsed"]

\* history: the response just handled and what the adapter took it for;
\* no delay has been awaited since its request
Handled(a, resp) ==
    [a EXCEPT !.body = resp,
              !.requests = @ + 1,
              !.delayed = FALSE,
              !.verdict = CASE resp.kind = "error" -> "failed"
                            [] isHtmlResponse(resp) -> "blocked"
                            [] OTHER -> "parsed"]

\* await this.delay(min, max): history, a delay has been awaited since the
\* last request
Delay(a) == [a EXCEPT !.delayed = TRUE]

\* PyaterochkaScraper.scrapeProducts after strategy 2, or after strategy 1
\* when it worked: strategy 3 when fewer than 50 products are held
SupplementOrReturn(a) ==
    IF Len(a.allProducts) < SupplementBelow
    THEN [a EXCEPT !.at = "catalog", !.category = 1, !.page = 1, !.requests = 0,
                   !.calls = Append(@, "catalog")]
    ELSE [a EXCEPT !.at = "returned"]

\* PyaterochkaScraper.scrapeProducts after trySearchStrategy
AfterSearch(a) ==
    IF ~a.searchWorked
    THEN [a EXCEPT !.at = "offers", !.page = 1, !.requests = 0,
                   !.calls = Append(@, "offers")]
    ELSE SupplementOrReturn(a)

\* scraper.scrapeProducts() is called
StartAdapter(store) ==
    /\ adapter.at = "idle"
    /\ adapter' =
         IF store = "pyaterochka"
         THEN [NoAdapter EXCEPT !.store = store, !.at = "search", !.keyword = 1,
                                !.calls = << "search" >>]
         ELSE IF store = "vkusvill"
         THEN [NoAdapter EXCEPT !.store = store, !.at = "api", !.category = 1,
                                !.page = 1]
         ELSE IF store = "lenta"
         THEN [NoAdapter EXCEPT !.store = store, !.at = "stores"]
         ELSE [NoAdapter EXCEPT !.store = store, !.at = "category", !.category = 1,
                                !.page = 1, !.totalPages = 1]
    /\ UNCHANGED << scrapeVars, retry, probe, shoppingList >>

\* one turn of the loop of trySearchStrategy: searchByKeyword and the merge
\* of its products
SearchKeyword ==
    /\ adapter.at = "search"
    /\ \E resp \in Responses(1) :
         LET products == IF resp.kind = "error" \/ isHtmlResponse(resp) THEN << >>
                         ELSE MapItems(ItemsOf(resp))
             a == [Handled(adapter, resp) EXCEPT
                     !.searchWorked = @ \/ Len(products) > 0,
                     !.allProducts = SetAll(@, products)]
         IN  adapter' = IF adapter.keyword < MaxKeywords
                        THEN [Delay(a) EXCEPT !.keyword = @ + 1]
                        ELSE AfterSearch(Delay(a))
    /\ UNCHANGED << scrapeVars, retry, probe, shoppingList >>

\* one turn of the loop of trySpecialOffersStrategy
SpecialOffersPage ==
    /\ adapter.at = "offers"
    /\ adapter.requests < MaxRequests
    /\ \E resp \in Responses(adapter.page) :
         LET a == Handled(adapter, resp)
             merged == [a EXCEPT !.allProducts = SetAll(@, MapItems(ItemsOf(resp))),
                                 !.page = @ + 1]
             nextUrl == resp.kind = "json" /\ resp.next
         IN  adapter' = IF resp.kind = "error" \/ isHtmlResponse(resp)
                        THEN SupplementOrReturn(a)
                        ELSE IF ~nextUrl THEN SupplementOrReturn(merged)
                        ELSE IF merged.page > PageCap
                        THEN SupplementOrReturn(Delay(merged))
                        ELSE Delay(merged)
    /\ UNCHANGED << scrapeVars, retry, probe, shoppingList >>

\* one turn of the inner loop of tryCatalogStrategy, and the step to the
\* next category code when it breaks
CatalogPage ==
    /\ adapter.at = "catalog"
    /\ adapter.requests < MaxRequests
    /\ \E resp \in Responses(adapter.page) :
         LET a == Handled(adapter, resp)
             items == ItemsOf(resp)
             merged == [a EXCEPT !.allProducts = SetAll(@, MapItems(items))]
             Break(b) == IF b.category < MaxCategories
                         THEN [Delay(b) EXCEPT !.category = @ + 1, !.page = 1,
                                               !.requests = 0]
                         ELSE [Delay(b) EXCEPT !.at = "returned"]
         IN  adapter' = IF resp.kind = "error" \/ isHtmlResponse(resp) \/ Len(items) = 0
                        THEN Break(a)
                        ELSE IF ~(resp.kind = "json" /\ resp.next)
                                \/ Len(items) < RecordsPerPage
                        THEN Break(merged)
                        ELSE [Delay(merged) EXCEPT !.page = @ + 1]
    /\ UNCHANGED << scrapeVars, retry, probe, shoppingList >>

\* one turn of the do-while of MagnitScraper.scrapeCategoryById, and the
\* step of scrapeProducts to the next category when it ends; the products of
\* a category are pushed onto allProducts when the category returns, which
\* leaves the list as if each page had pushed its own.  withRetry never
\* retries: no exception leaves the loop over the categories
MagnitPage ==
    /\ adapter.at = "category"
    /\ adapter.requests < MaxRequests
    /\ \E resp \in Responses(adapter.page) :
         LET a == Handled(adapter, resp)
             goods == ItemsOf(resp)
             pushed == [a EXCEPT !.allProducts = @ \o MapItems(goods)]
             Break(b) == IF b.category < MaxCategories
                         THEN [Delay(b) EXCEPT !.category = @ + 1, !.page = 1,
                                               !.totalPages = 1, !.requests = 0]
                         ELSE [Delay(b) EXCEPT !.at = "returned"]
         IN  /\ Len(pushed.allProducts) <= MaxScraped
             /\ adapter' =
                  IF resp.kind = "error" \/ isHtmlResponse(resp) \/ Len(goods) = 0
                  THEN Break(a)
                  ELSE IF resp.kind # "json" \/ ~resp.pagination.present
                  THEN Break(pushed)
                  ELSE LET total == resp.pagination.total
                           size == resp.pagination.size
                           totalPages == (total + size - 1) \div size
                       IN  IF a.page + 1 <= totalPages
                           THEN [Delay(pushed) EXCEPT !.page = @ + 1,
                                                      !.totalPages = totalPages]
                           ELSE Break([pushed EXCEPT !.page = @ + 1,
                                                     !.totalPages = totalPages])
    /\ UNCHANGED << scrapeVars, retry, probe, shoppingList >>

\* maxRetries = 3, the default of withRetry
DefaultMaxRetries == 3

\* const perPage = 60
VkusvillPerPage == 60

\* what the Vkusvill API answers to the request of page `page`: a
\* rejection, an HTML body, or a body whose data holds nothing, a priced
\* product, a product whose price is negative or a product whose price is 0
\* (as falsy as a missing one), and whose meta.total covers the pages asked
\* for so far or one page more
VkusvillResponses(page) ==
    {[kind |-> "error"]}
    \cup {[kind |-> "string", text |-> t] : t \in HtmlPages}
    \cup {[kind |-> "json", items |-> items,
           total |-> (IF more THEN page + 1 ELSE page) * VkusvillPerPage] :
            items \in {<< >>, << [name |-> "milk", price |-> 80, url |-> "/goods/1" ] >>,
                       << [name |-> "kefir", price |-> -5, url |-> "/goods/2"] >>,
                       << [name |-> "bag", price |-> 0, url |-> "/goods/3"] >>},
            more \in BOOLEAN}

\* the loop body of VkusvillScraper.scrapeViaApi: `if (!item.price)
\* continue`, then the push
MapVkusvillItems(items) ==
    LET kept == SelectSeq(items, LAMBDA item : item.price # 0)
    IN  [i \in 1..Len(kept) |->
            [storeProductName |-> kept[i].name, price |-> kept[i].price,
             pricePerUnit |-> Null, url |-> kept[i].url]]

\* BaseScraper.scrapeAll (the loop over the category URLs) after
\* scrapeCategory settled: the push of its products when it resolved, and
\* the next category
CategoryDone(a, resolved, products) ==
    LET pushed == IF resolved THEN [a EXCEPT !.allProducts = @ \o products] ELSE a
    IN  IF a.category < MaxCategories
        THEN [Delay(pushed) EXCEPT !.at = "api", !.category = @ + 1, !.page = 1,
                                   !.attempt = 0, !.products = << >>]
        ELSE [pushed EXCEPT !.at = "returned", !.products = << >>]

\* one turn of the while loop of VkusvillScraper.scrapeViaApi inside
\* scrapeCategory: a rejected request throws to the catch of scrapeCategory,
\* which goes on to scrapeViaPage, as an API walk without products does
VkusvillApiPage ==
    /\ adapter.at = "api"
    /\ adapter.page <= MaxApiPages
    /\ \E resp \in VkusvillResponses(adapter.page) :
         LET a == Handled(adapter, resp)
             items == ItemsOf(resp)
             walked == [a EXCEPT !.products = @ \o MapVkusvillItems(items)]
             Return(b) == IF Len(b.products) > 0
                          THEN CategoryDone(b, TRUE, b.products)
                          ELSE [b EXCEPT !.at = "page"]
         IN  /\ Len(adapter.allProducts) + Len(walked.products) <= MaxApiPages
             /\ adapter' = IF resp.kind = "error"
                            THEN [a EXCEPT !.at = "page", !.products = << >>]
                            ELSE IF Len(items) = 0 THEN Return(a)
                            ELSE IF adapter.page * VkusvillPerPage >= resp.total
                            THEN Return(walked)
                            ELSE [Delay(walked) EXCEPT !.page = @ + 1]
    /\ UNCHANGED << scrapeVars, retry, probe, shoppingList >>

\* VkusvillScraper.scrapeViaPage, and what withRetry and scrapeAll do when
\* it throws: the browser gives the cards of the page, of which those
\* with a price that parses and is positive are kept, or fails; a failure
\* starts the function of scrapeCategory again until maxRetries, then
\* scrapeAll logs it and goes on without the category
VkusvillViaPage ==
    /\ adapter.at = "page"
    /\ \E thrown \in BOOLEAN, cards \in {r.items : r \in {x \in VkusvillResponses(1) :
                                                          x.kind = "json"}} :
         LET kept == SelectSeq(MapVkusvillItems(cards), LAMBDA p : p.price > 0)
         IN  /\ Len(adapter.allProducts) + Len(kept) <= MaxApiPages
             /\ adapter' =
                  IF ~thrown
                  THEN CategoryDone([adapter EXCEPT !.verdict = "parsed",
                                                    !.delayed = FALSE], TRUE, kept)
                  ELSE IF adapter.attempt < DefaultMaxRetries
                  THEN [adapter EXCEPT !.at = "api", !.page = 1, !.products = << >>,
                                       !.attempt = @ + 1, !.verdict = "failed",
                                       !.delayed = FALSE]
                  ELSE CategoryDone([adapter EXCEPT !.verdict = "failed",
                                                    !.delayed = FALSE], FALSE, << >>)
    /\ UNCHANGED << scrapeVars, retry, probe, shoppingList >>

\* the promo endpoints of LentaScraper.scrapeProducts
promoEndpoints == << "home", "mobilepromo weekly", "mobilepromo everyday",
                     "crazypromotions" >>

\* const maxPages = 10
LentaMaxPages == 10

\* if (allProducts.size < 30): the catalog API supplements the promos
LentaSupplementBelow == 30

\* LentaScraper.getSpbStoreId: the request of /stores/; whatever comes
\* back, a store id is returned (the fallback id at worst) and the loop
\* over the promo endpoints starts
LentaStoreLookup ==
    /\ adapter.at = "stores"
    /\ \E resp \in Responses(1) :
         adapter' = [Handled(adapter, resp) EXCEPT !.at = "promo", !.category = 1]
    /\ UNCHANGED << scrapeVars, retry, probe, shoppingList >>

\* one turn of the loop over promoEndpoints: fetchPromoEndpoint, the merge
\* and the delay; after the last endpoint, steps 3 and 4 of scrapeProducts
LentaPromoEndpoint ==
    /\ adapter.at = "promo"
    /\ \E resp \in Responses(1) :
         LET products == IF resp.kind = "error" \/ isHtmlResponse(resp) THEN << >>
                         ELSE mapGood(ItemsOf(resp))
             a == Delay([Handled(adapter, resp) EXCEPT
                           !.allProducts = SetAll(@, products)])
         IN  adapter' = IF adapter.category < Len(promoEndpoints)
                        THEN [a EXCEPT !.category = @ + 1]
                        ELSE IF Len(a.allProducts) > 0
                        THEN [a EXCEPT !.at = "weekly", !.page = 1, !.requests = 0]
                        ELSE [a EXCEPT !.at = "lentaCatalog", !.requests = 0]
    /\ UNCHANGED << scrapeVars, retry, probe, shoppingList >>

\* one turn of the loop of paginateWeeklyPromo, and step 4 of
\* scrapeProducts when the loop ends
LentaWeeklyPage ==
    /\ adapter.at = "weekly"
    /\ adapter.page < LentaMaxPages
    /\ \E resp \in Responses(adapter.page) :
         LET a == Handled(adapter, resp)
             goods == ItemsOf(resp)
             merged == [a EXCEPT !.allProducts = SetAll(@, mapGood(goods))]
             After(b) == IF Len(b.allProducts) < LentaSupplementBelow
                         THEN [b EXCEPT !.at = "lentaCatalog", !.requests = 0]
                         ELSE [b EXCEPT !.at = "returned"]
         IN  adapter' = IF resp.kind = "error" \/ isHtmlResponse(resp) \/ Len(goods) = 0
                        THEN After(a)
                        ELSE IF Len(goods) < RecordsPerPage THEN After(merged)
                        ELSE IF adapter.page + 1 < LentaMaxPages
                        THEN [Delay(merged) EXCEPT !.page = @ + 1]
                        ELSE After([Delay(merged) EXCEPT !.page = @ + 1])
    /\ UNCHANGED << scrapeVars, retry, probe, shoppingList >>

\* LentaScraper.tryCatalogApi up to its loop: the request of /catalog/ and
\* the categories it lists, of which at most 10 are scraped
LentaCatalog ==
    /\ adapter.at = "lentaCatalog"
    /\ \E resp \in {r \in Responses(1) : r.kind = "json" => r.items = << >>},
          listed \in 0..MaxCategories :
         LET a == Handled(adapter, resp)
             categories == IF listed < 10 THEN listed ELSE 10
         IN  adapter' = IF resp.kind = "error" \/ isHtmlResponse(resp) \/ categories = 0
                        THEN [a EXCEPT !.at = "returned"]
                        ELSE [a EXCEPT !.at = "lentaCategory", !.category = 1,
                                       !.totalPages = categories]
    /\ UNCHANGED << scrapeVars, retry, probe, shoppingList >>

\* one turn of the loop of tryCatalogApi over the categories
LentaCategory ==
    /\ adapter.at = "lentaCategory"
    /\ \E resp \in Responses(1) :
         LET products == IF resp.kind = "error" \/ isHtmlResponse(resp) THEN << >>
                         ELSE mapGood(ItemsOf(resp))
             a == Delay([Handled(adapter, resp) EXCEPT
                           !.allProducts = SetAll(@, products)])
         IN  adapter' = IF adapter.category < adapter.totalPages
                        THEN [a EXCEPT !.category = @ + 1]
                        ELSE [a EXCEPT !.at = "returned"]
    /\ UNCHANGED << scrapeVars, retry, probe, shoppingList >>

\* scrapeProducts returns its list, Array.from(allProducts.values()) or the
\* array, to scrapeAll
ReturnProducts ==
    /\ adapter.at = "returned"
    /\ adapter' = [NoAdapter EXCEPT !.store = adapter.store,
                                    !.returned = adapter.allProducts]
    /\ UNCHANGED << scrapeVars, retry, probe, shoppingList >>

\* the adapters of pyaterochka and magnit against an upstream that may
\* answer anything
NextAdapter ==
    \/ \E store \in {"pyaterochka", "magnit", "vkusvill", "lenta"} : StartAdapter(store)
    \/ SearchKeyword
    \/ SpecialOffersPage
    \/ CatalogPage
    \/ MagnitPage
    \/ VkusvillApiPage
    \/ VkusvillViaPage
    \/ LentaStoreLookup
    \/ LentaPromoEndpoint
    \/ LentaWeeklyPage
    \/ LentaCatalog
    \/ LentaCategory
    \/ ReturnProducts

SpecAdapter == Init /\ [][NextAdapter]_vars

\* ───────────────────────── resilience wrapper ───────────────────────────
\* a variant that backs off by 2 s more each time
backoffLinear(attempt) == (attempt + 1) * 2000

\* const backoffMs = Math.pow(2, attempt + 1) * 1000
backoffMs(attempt) == 2 ^ (attempt + 1) * 1000

\* withRetry(fn, maxRetries) is called; the loop starts at attempt 0
InitRetry ==
    /\ now = 0
    /\ stores = StoresTable
    /\ prices = << >>
    /\ cache = {}
    /\ pc = [w \in Workers |-> "idle"]
    /\ sweep = [w \in Workers |-> NoSweep]
    /\ run = [w \in Workers |-> NewRun(Null)]
    /\ tx = [w \in Workers |-> NoTx]
    /\ response = [w \in Workers |-> NoResponse]
    /\ sweepsStarted = 0
    /\ faultsLeft = 0
    /\ lastRun = [s \in Slugs |-> NoRun]
    /\ shoppingList = NoList
    /\ adapter = NoAdapter
    /\ probe = NoProbe
    /\ \E maxRetries \in 0..MaxRetries :
         retry = [NoRetry EXCEPT !.maxRetries = maxRetries, !.at = "call"]

\* try { return await fn() } catch (err) { lastError = err; ... }: fn
\* resolves with a value or rejects with an error
InvokeFn ==
    /\ retry.at = "call"
    /\ retry.attempt <= retry.maxRetries
    /\ \E settled \in {[ok |-> TRUE, with |-> "products"],
                        [ok |-> FALSE, with |-> "ETIMEDOUT"],
                        [ok |-> FALSE, with |-> "HTTP 500"]} :
         retry' = IF settled.ok
                  THEN [retry EXCEPT !.invocations = @ + 1, !.at = "returned",
                                     !.result = settled.with]
                  ELSE [retry EXCEPT !.invocations = @ + 1, !.at = "caught",
                                     !.errors = Append(@, settled.with),
                                     !.lastError = settled.with]
    /\ UNCHANGED << scrapeVars, adapter, probe, shoppingList >>

\* the rest of the catch block and the loop header: the wait before the
\* next attempt, or `throw lastError` once attempt has passed maxRetries
AfterFailure ==
    /\ retry.at = "caught"
    /\ retry' = IF retry.attempt < retry.maxRetries
                THEN [retry EXCEPT !.waits = Append(@, backoffMs(retry.attempt)),
                                   !.attempt = @ + 1, !.at = "call"]
                ELSE [retry EXCEPT !.attempt = @ + 1, !.at = "threw",
                                   !.thrown = retry.lastError]
    /\ UNCHANGED << scrapeVars, adapter, probe, shoppingList >>

SpecRetry == InitRetry /\ [][InvokeFn \/ AfterFailure]_vars

\* ───────────────────────── matcher under test ──────────────────────────
\* raw names: every string of up to MaxNameLen characters over a digit, a
\* hyphen, a unit, a letter and a space, and names as the stores print them
ProbeNames ==
    LET alphabet == {"1", "-", "cl", "a", " "}
        shortNames == UNION {[1..n -> alphabet] : n \in 0..MaxNameLen}
    IN  shortNames \cup
        {<< "m", "i", "l", "k" >>,
         << "M", "i", "l", "k", " ", "1", "cl" >>,
         << "s", "i", "l", "k" >>,
         << "k", "e", "f", "i", "r", " ", "5", "0", "0", "cg" >>,
         << "a", "b", "c", "d", "e", "f", "g", "h", "i", "j", "k", "l", "m", "n" >>}

\* canonical lists as loadCanonicalProducts can return them: the catalog of
\* the model, two products as near to "milk" as each other, a nearer product
\* after a farther one, a product reached through an alias next to one whose
\* name normalizes to nothing, and an empty catalog
ProbeCatalogs ==
    LET Product(id, name, aliases) == [id |-> id, name |-> name, aliases |-> aliases]
        mild == << "m", "i", "l", "d" >>
        silk == << "s", "i", "l", "k" >>
        milk == << "m", "i", "l", "k" >>
        long == << "a", "b", "c", "d", "e", "f", "g", "h", "i", "j", "k", "l", "m", "n",
                   "o", "p", "q", "r", "s", "t", "u", "v", "w", "x", "y", "z",
                   "ca", "cg" >>
    IN  {CanonicalProducts,
         << Product(1, mild, << >>), Product(2, silk, << >>) >>,
         << Product(1, silk, << >>), Product(2, milk, << >>), Product(3, mild, << >>) >>,
         << Product(1, << "1", " ", "cl" >>, << >>),
            Product(2, << "t", "e", "a" >>, << << "1", "cl" >>, long >>) >>,
         << >>}

\* findBestMatch(rawName, canonicals) is called
InitMatcher ==
    /\ now = 0
    /\ stores = StoresTable
    /\ prices = << >>
    /\ cache = {}
    /\ pc = [w \in Workers |-> "idle"]
    /\ sweep = [w \in Workers |-> NoSweep]
    /\ run = [w \in Workers |-> NewRun(Null)]
    /\ tx = [w \in Workers |-> NoTx]
    /\ response = [w \in Workers |-> NoResponse]
    /\ sweepsStarted = 0
    /\ faultsLeft = 0
    /\ lastRun = [s \in Slugs |-> NoRun]
    /\ shoppingList = NoList
    /\ adapter = NoAdapter
    /\ retry = NoRetry
    /\ \E rawName \in ProbeNames, canonicals \in ProbeCatalogs :
         probe = [NoProbe EXCEPT !.rawName = rawName, !.canonicals = canonicals,
                                 !.at = "called"]

\* const normalizedRaw = normalizeForComparison(rawName)
NormalizeRaw ==
    /\ probe.at = "called"
    /\ probe' = [probe EXCEPT !.at = "normalized",
                              !.normalizedRaw = normalizeForComparison(probe.rawName)]
    /\ UNCHANGED << scrapeVars, adapter, retry, shoppingList >>

\* the rest of findBestMatch: the loop over the canonicals and the return
ReturnBestMatch ==
    /\ probe.at = "normalized"
    /\ probe' = [probe EXCEPT !.at = "returned",
                              !.bestMatch = findBestMatch(probe.rawName, probe.canonicals)]
    /\ UNCHANGED << scrapeVars, adapter, retry, shoppingList >>

SpecMatcher == InitMatcher /\ [][NormalizeRaw \/ ReturnBestMatch]_vars

\* ------------------------------------------------------------------------
\* The price mapping of the adapters under test
\* ------------------------------------------------------------------------

\* how far from a cutoff the raw amounts of the items under test lie
MaxOffset == 1

PerekrestokCutoff == 5000
MagnitCutoff == 50000
PerekrestokUnitCutoff == 50000

\* the raw amounts of a price field: absent (0), a small amount, and the
\* amounts around the two cutoffs
Amounts ==
    {0, 90} \cup {cutoff + d : cutoff \in {PerekrestokCutoff, MagnitCutoff},
                              d \in 0..MaxOffset}

\* `amount > cutoff ? amount / 100 : amount`.  A returned number is held in
\* hundredths, so that the division is exact: amount / 100 is amount
\* hundredths, amount is amount * 100 hundredths
magnitude(cutoff, amount) ==
    IF amount > cutoff THEN amount ELSE amount * 100

NoListing == [kept |-> FALSE, price |-> 0, pricePerUnit |-> 0]

\* a named item with its price fields is handed to the mapping of a store;
\* a Magnit item has price and pricePerUnit only
InitPrices ==
    /\ now = 0
    /\ stores = StoresTable
    /\ prices = << >>
    /\ cache = {}
    /\ pc = [w \in Workers |-> "idle"]
    /\ sweep = [w \in Workers |-> NoSweep]
    /\ run = [w \in Workers |-> NewRun(Null)]
    /\ tx = [w \in Workers |-> NoTx]
    /\ response = [w \in Workers |-> NoResponse]
    /\ sweepsStarted = 0
    /\ faultsLeft = 0
    /\ lastRun = [s \in Slugs |-> NoRun]
    /\ shoppingList = NoList
    /\ adapter = NoAdapter
    /\ retry = NoRetry
    /\ \E store \in {"perekrestok", "magnit"},
          promo \in Amounts, regular \in Amounts, price \in Amounts,
          pricePerUnit \in Amounts :
         /\ store = "magnit" => promo = 0 /\ regular = 0
         /\ probe = [at |-> "item", store |-> store,
                     item |-> [promo |-> promo, regular |-> regular,
                               price |-> price, pricePerUnit |-> pricePerUnit],
                     listing |-> NoListing]

\* PerekrestokScraper.mapProduct on a named item: promo, else regular, as
\* they are; else the legacy price through the heuristic; null without a
\* price; pricePerUnit through the heuristic with its own cutoff
PerekrestokMapProduct ==
    /\ probe.at = "item"
    /\ probe.store = "perekrestok"
    /\ LET item == probe.item
           price == IF item.promo > 0 THEN item.promo * 100
                    ELSE IF item.regular > 0 THEN item.regular * 100
                    ELSE IF item.price > 0
                    THEN magnitude(PerekrestokCutoff, item.price)
                    ELSE 0
           pricePerUnit == IF item.pricePerUnit > 0
                           THEN magnitude(PerekrestokUnitCutoff, item.pricePerUnit)
                           ELSE 0
       IN  probe' = [probe EXCEPT
                       !.at = "mapped",
                       !.listing = IF price <= 0 THEN NoListing
                                   ELSE [kept |-> TRUE, price |-> price,
                                         pricePerUnit |-> pricePerUnit]]
    /\ UNCHANGED << scrapeVars, adapter, retry, shoppingList >>

\* the loop body of MagnitScraper.scrapeCategoryById on a named item
MagnitMapItem ==
    /\ probe.at = "item"
    /\ probe.store = "magnit"
    /\ LET item == probe.item
           pricePerUnit == IF item.pricePerUnit # 0
                           THEN magnitude(MagnitCutoff, item.pricePerUnit)
                           ELSE 0
       IN  probe' = [probe EXCEPT
                       !.at = "mapped",
                       !.listing = IF item.price <= 0 THEN NoListing
                                   ELSE [kept |-> TRUE,
                                         price |-> magnitude(MagnitCutoff, item.price),
                                         pricePerUnit |-> pricePerUnit]]
    /\ UNCHANGED << scrapeVars, adapter, retry, shoppingList >>

SpecPrices == InitPrices /\ [][PerekrestokMapProduct \/ MagnitMapItem]_vars

\* ------------------------------------------------------------------------
\* The basket optimizer under test
\* ------------------------------------------------------------------------

\* the most items of a shopping list under test
MaxItems == 2
\* the highest price of a product at a store
MaxPrice == 3
\* the highest maxStores findBestSplit is called with
MaxStoresAsked == 2

\* stores: Store[], by id
SplitStores == << 1, 2 >>

\* the loop `if (p.price < cheapest.price) cheapest = p`: the first record
\* with the lowest price
cheapestOf(recs) ==
    recs[CHOOSE i \in DOMAIN recs :
             /\ \A j \in DOMAIN recs : recs[i].price <= recs[j].price
             /\ \A j \in 1..(i - 1) : recs[j].price > recs[i].price]

\* prices.reduce((a, b) => a.price < b.price ? a : b): the last record with
\* the lowest price
reduceCheapest(recs) ==
    recs[CHOOSE i \in DOMAIN recs :
             /\ \A j \in DOMAIN recs : recs[i].price <= recs[j].price
             /\ \A j \in (i + 1)..Len(recs) : recs[j].price > recs[i].price]

NoSplit ==
    [returned |-> FALSE, storeSplit |-> << >>, totalCost |-> 0,
     savingsVsSingleStore |-> 0, storeCount |-> 0]

\* findBestSplit is called with a shopping list of distinct products, each
\* with a quantity, the price records of each product (none, or one per
\* store that carries it, in the order of the stores) and maxStores
InitSplit ==
    /\ now = 0
    /\ stores = StoresTable
    /\ prices = << >>
    /\ cache = {}
    /\ pc = [w \in Workers |-> "idle"]
    /\ sweep = [w \in Workers |-> NoSweep]
    /\ run = [w \in Workers |-> NewRun(Null)]
    /\ tx = [w \in Workers |-> NoTx]
    /\ response = [w \in Workers |-> NoResponse]
    /\ sweepsStarted = 0
    /\ faultsLeft = 0
    /\ lastRun = [s \in Slugs |-> NoRun]
    /\ shoppingList = NoList
    /\ adapter = NoAdapter
    /\ retry = NoRetry
    /\ \E n \in 0..MaxItems, maxStores \in 1..MaxStoresAsked :
         \E quantity \in [1..n -> 1..2],
            priceAt \in [1..n -> [1..Len(SplitStores) -> 0..MaxPrice]] :
           probe = [at |-> "called",
                    items |-> [i \in 1..n |-> [productId |-> i, quantity |-> quantity[i]]],
                    pricesMap |->
                      [i \in 1..n |->
                         LET carried == SelectSeq(SplitStores,
                                                  LAMBDA sid : priceAt[i][sid] > 0)
                         IN  [k \in 1..Len(carried) |->
                                [storeId |-> carried[k], price |-> priceAt[i][carried[k]]]]],
                    maxStores |-> maxStores,
                    itemAssignments |-> << >>, allowedStores |-> {},
                    result |-> NoSplit]

\* steps 1 to 3 of findBestSplit: the cheapest store of each priced item,
\* the number of items of each store, and the maxStores stores with the
\* most items (the sort is stable: stores with as many items stay in the
\* order in which they were first assigned)
AssignCheapest ==
    /\ probe.at = "called"
    /\ LET priced == SelectSeq(probe.items,
                               LAMBDA item : Len(probe.pricesMap[item.productId]) > 0)
           itemAssignments ==
               [k \in 1..Len(priced) |->
                  LET cheapest == cheapestOf(probe.pricesMap[priced[k].productId])
                  IN  [item |-> priced[k], storeId |-> cheapest.storeId,
                       price |-> cheapest.price]]
           assigned == {itemAssignments[k].storeId : k \in DOMAIN itemAssignments}
           storeItemCount == [sid \in assigned |->
               Cardinality({k \in DOMAIN itemAssignments : itemAssignments[k].storeId = sid})]
           first == [sid \in assigned |->
               CHOOSE k \in DOMAIN itemAssignments :
                 /\ itemAssignments[k].storeId = sid
                 /\ \A j \in 1..(k - 1) : itemAssignments[j].storeId # sid]
           Before(a, b) == \/ storeItemCount[a] > storeItemCount[b]
                           \/ storeItemCount[a] = storeItemCount[b] /\ first[a] < first[b]
           allowedStores == {sid \in assigned :
               Cardinality({other \in assigned : Before(other, sid)}) < probe.maxStores}
       IN  probe' = IF Len(probe.items) = 0 \/ Len(SplitStores) = 0
                       \/ Len(itemAssignments) = 0
                    THEN [probe EXCEPT !.at = "returned"]
                    ELSE [probe EXCEPT !.at = "assigned",
                                       !.itemAssignments = itemAssignments,
                                       !.allowedStores = allowedStores]
    /\ UNCHANGED << scrapeVars, adapter, retry, shoppingList >>

\* steps 4 to 6 of findBestSplit and its return: each item goes to the
\* cheapest allowed store that carries it, or back to its cheapest store
\* when no allowed store does; the split, its cost and the savings against
\* the cheapest store that carries every item
ReturnSplit ==
    /\ probe.at = "assigned"
    /\ LET itemAssignments == probe.itemAssignments
           n == Len(itemAssignments)
           pricesOf(k) == probe.pricesMap[itemAssignments[k].item.productId]
           finalAssignments ==
               [k \in 1..n |->
                  LET allowedPrices == SelectSeq(pricesOf(k),
                          LAMBDA p : p.storeId \in probe.allowedStores)
                      chosen == IF Len(allowedPrices) = 0 THEN reduceCheapest(pricesOf(k))
                                ELSE reduceCheapest(allowedPrices)
                  IN  [item |-> itemAssignments[k].item, storeId |-> chosen.storeId,
                       price |-> chosen.price]]
           visited == {finalAssignments[k].storeId : k \in 1..n}
           storeSplit == [sid \in visited |->
               SelectSeq([k \in 1..n |-> finalAssignments[k]],
                         LAMBDA a : a.storeId = sid)]
           cost[k \in 0..n] ==
               IF k = 0 THEN 0
               ELSE cost[k - 1] + finalAssignments[k].price * finalAssignments[k].item.quantity
           carriesAll(sid) == \A k \in 1..n : \E i \in DOMAIN pricesOf(k) :
                                  pricesOf(k)[i].storeId = sid
           priceIn(k, sid) == (CHOOSE p \in {pricesOf(k)[i] : i \in DOMAIN pricesOf(k)} :
                                  p.storeId = sid).price
           storeTotal(sid) ==
               LET total[k \in 0..n] ==
                       IF k = 0 THEN 0
                       ELSE total[k - 1] + priceIn(k, sid) * itemAssignments[k].item.quantity
               IN  total[n]
           finite == {storeTotal(SplitStores[i]) :
                        i \in {j \in DOMAIN SplitStores : carriesAll(SplitStores[j])}}
           singleStoreBest == CHOOSE t \in finite : \A u \in finite : t <= u
       IN  probe' = [probe EXCEPT
                       !.at = "returned",
                       !.result = [returned |-> TRUE,
                                   storeSplit |-> storeSplit,
                                   totalCost |-> cost[n],
                                   savingsVsSingleStore |->
                                     IF finite # {} THEN singleStoreBest - cost[n] ELSE 0,
                                   storeCount |-> Cardinality(visited)]]
    /\ UNCHANGED << scrapeVars, adapter, retry, shoppingList >>

SpecSplit == InitSplit /\ [][AssignCheapest \/ ReturnSplit]_vars

\* ------------------------------------------------------------------------
\* The shopping list of the app
\* ------------------------------------------------------------------------

\* the products the user can pick
MaxListProducts == 3
\* the quantity up to which an item is followed
MaxQuantity == 3

\* a variant that pushes an item whether or not the product is listed
addItemAlwaysPushing(items, productId, quantity) ==
    Append(items, [productId |-> productId, quantity |-> quantity])

\* the body of addItem before saveToStorage: the quantity of the first item
\* of the product grows, or a new item is pushed
addItem(items, productId, quantity) ==
    LET found == {i \in DOMAIN items : items[i].productId = productId}
    IN  IF found # {}
        THEN LET existing == CHOOSE i \in found : \A j \in found : i <= j
             IN  [items EXCEPT ![existing].quantity = @ + quantity]
        ELSE Append(items, [productId |-> productId, quantity |-> quantity])

\* the list after an operation that ends with saveToStorage():
\* JSON.stringify(this.items) is what localStorage holds
Saved(items, op, productId) ==
    [items |-> items, storage |-> items, last |-> [op |-> op, productId |-> productId]]

\* addItem(product, quantity = 1); the screen calls addItem(product)
AddItem ==
    /\ \E productId \in 1..MaxListProducts, quantity \in 1..2 :
         LET items == addItem(shoppingList.items, productId, quantity)
         IN  /\ \A i \in DOMAIN items : items[i].quantity <= MaxQuantity
             /\ shoppingList' = Saved(items, "addItem", productId)
    /\ UNCHANGED << scrapeVars, adapter, retry, probe >>

\* removeItem(productId)
RemoveItem ==
    /\ \E productId \in 1..MaxListProducts :
         shoppingList' =
             Saved(SelectSeq(shoppingList.items, LAMBDA i : i.productId # productId),
                   "removeItem", productId)
    /\ UNCHANGED << scrapeVars, adapter, retry, probe >>

\* updateQuantity(productId, quantity): Math.max(1, quantity) on the first
\* item of the product; nothing, and no save, when the product is not listed
UpdateQuantity ==
    /\ \E productId \in 1..MaxListProducts, quantity \in -1..MaxQuantity :
         LET items == shoppingList.items
             found == {i \in DOMAIN items : items[i].productId = productId}
             item == CHOOSE i \in found : \A j \in found : i <= j
         IN  /\ found # {}
             /\ shoppingList' =
                    Saved([items EXCEPT ![item].quantity =
                                          IF quantity > 1 THEN quantity ELSE 1],
                          "updateQuantity", productId)
    /\ UNCHANGED << scrapeVars, adapter, retry, probe >>

\* clearAll()
ClearAll ==
    /\ shoppingList' = Saved(<< >>, "clearAll", 0)
    /\ UNCHANGED << scrapeVars, adapter, retry, probe >>

\* the page is opened again: the constructor and loadFromStorage
LoadFromStorage ==
    /\ shoppingList' = [shoppingList EXCEPT !.items = shoppingList.storage,
                                            !.last = [op |-> "load", productId |-> 0]]
    /\ UNCHANGED << scrapeVars, adapter, retry, probe >>

SpecList ==
    Init /\ [][AddItem \/ RemoveItem \/ UpdateQuantity \/ ClearAll \/ LoadFromStorage]_vars

\* ───────────────────────── properties ───────────────────────────────────
\* index of the last listing of feed that is matched to productId, 0 if none
LastMatching(feed, productId) ==
    LET hits == {k \in 1..Len(feed) : MatchOf[feed[k].storeProductName].productId = productId}
    IN  IF hits = {} THEN 0 ELSE CHOOSE k \in hits : \A m \in hits : m <= k

\* C1: the persisted prices table never holds two rows with the same
\* (product_id, store_id), whether runs commit, hit row-level failures, are
\* rolled back or overlap for the same store; and when a run commits, every
\* product one of its listings matched has exactly one row of the store,
\* holding the price, price_per_unit, name and url of the last such listing
\* and the run's NOW() as scraped_at.
C1_OneRowPerPair ==
    /\ [](\A i, j \in 1..Len(prices) : Conflicts(prices[i], prices[j]) => i = j)
    /\ [][\A w \in Workers :
            (pc[w] = "commit" /\ run'[w].outcome = "committed") =>
               \A k \in 1..Len(run[w].rawProducts) :
                  LET feed == run[w].rawProducts
                      match == MatchOf[feed[k].storeProductName]
                      rows == {i \in 1..Len(prices') :
                                  /\ prices'[i].product_id = match.productId
                                  /\ prices'[i].store_id = run[w].storeId}
                  IN  match # NoMatch =>
                        /\ Cardinality(rows) = 1
                        /\ \A i \in rows :
                              prices'[i] = PriceRow(match.productId, run[w].storeId,
                                                    feed[LastMatching(feed, match.productId)],
                                                    run[w].began)]_vars

\* two runs of one store overlapped: the store had no row when this run
\* started, the other sweep's run of the store committed a row meanwhile,
\* and this run has committed another price over that row
C1_Witness ==
    \E w \in Workers :
        /\ pc[w] = "cache" /\ run[w].outcome = "committed"
        /\ run[w].before = << >>
        /\ lastRun[run[w].slug].committed
        /\ \E k \in 1..Len(lastRun[run[w].slug].feed), j \in 1..Len(prices) :
              LET other == lastRun[run[w].slug].feed[k]
              IN  /\ MatchOf[other.storeProductName].productId = prices[j].product_id
                  /\ prices[j].store_id = run[w].storeId
                  /\ prices[j].scraped_at = run[w].began
                  /\ other.price # prices[j].price

\* C2: when a store run ends in the rollback path (BEGIN, the mark-stale
\* UPDATE or COMMIT failed), the store's persisted rows, scraped_at
\* included, are exactly the rows it had before the run.
C2_RollbackRestores ==
    \A w \in Workers :
        (pc[w] = "done" /\ run[w].outcome \in {"rolledback", "rollbackFailed"}) =>
            StoreRows(prices, run[w].storeId) = run[w].before

\* a run that had marked existing rows stale and upserted lost its
\* connection at COMMIT: the server rolled the transaction back, the
\* client's ROLLBACK was rejected
C2_Witness ==
    \E w \in Workers :
        /\ pc[w] = "done" /\ run[w].outcome = "rollbackFailed"
        /\ run[w].before # << >>
        /\ run[w].log = << "BEGIN", "UPDATE", "INSERT", "COMMIT", "ROLLBACK" >>

\* C3: on the client of a store run the first statement is BEGIN, the
\* mark-stale UPDATE is sent exactly once, right after BEGIN, every upsert
\* comes after it and before the COMMIT or ROLLBACK that ends the
\* transaction, and an upsert is only reached when the UPDATE succeeded.
C3_MarkStaleBeforeUpserts ==
    \A w \in Workers :
        LET log == run[w].log
        IN  \A i \in 1..Len(log) :
              /\ (i = 1) <=> (log[i] = "BEGIN")
              /\ log[i] = "UPDATE" => i = 2
              /\ log[i] = "INSERT" =>
                    /\ i > 2 /\ log[2] = "UPDATE"
                    /\ \A j \in 1..(i - 1) : log[j] \notin {"COMMIT", "ROLLBACK"}
              /\ (log[i] = "INSERT" /\ pc[w] \in {"upsert", "commit"}) =>
                    tx[w].status # "none"

\* a run that sent BEGIN, the UPDATE, two upserts and COMMIT
C3_Witness ==
    \E w \in Workers :
        /\ pc[w] = "cache"
        /\ run[w].log = << "BEGIN", "UPDATE", "INSERT", "INSERT", "COMMIT" >>

\* the rows of run w's store at its start that no listing of the run matches
Unrediscovered(w) ==
    {i \in 1..Len(run[w].before) :
        LastMatching(run[w].rawProducts, run[w].before[i].product_id) = 0}

C5_OneEntryPerStore ==
    \A w \in Workers :
        /\ run[w].outcome # "threw"
        /\ response[w].status # 500
        /\ sweep[w].kind # "none" =>
             LET sw == sweep[w]
             IN  /\ Len(sw.ran) <= Len(sw.plan)
                 /\ \A i \in 1..Len(sw.ran) : sw.ran[i] = sw.plan[i]
                 /\ Len(sw.allStats) <= Len(sw.ran)
                 /\ \A i \in 1..Len(sw.allStats) : sw.allStats[i].store = sw.ran[i]
                 /\ pc[w] = "idle" => Len(sw.allStats) = Len(sw.plan)
                 /\ pc[w] # "idle" => Len(sw.ran) - Len(sw.allStats) \in {0, 1}
                 /\ pc[w] \notin {"idle", "scrape"} => Len(sw.ran) = Len(sw.allStats) + 1

\* a sweep has returned five entries although the runs of the third and
\* the fourth store failed, the fourth after an upsert
C5_Witness ==
    \E w \in Workers :
        /\ pc[w] = "idle" /\ Len(sweep[w].allStats) = 5
        /\ sweep[w].allStats[3].errors > 0
        /\ sweep[w].allStats[4].errors > 0
        /\ sweep[w].allStats[4].inserted > 0

C7_RolledBackReportsNothing ==
    \A w \in Workers :
        pc[w] = "done" =>
            /\ run[w].outcome \in {"rolledback", "rollbackFailed"} =>
                  /\ run[w].stats.matched = 0
                  /\ run[w].stats.inserted = 0
                  /\ run[w].stats.errors > 0
            /\ run[w].stats.inserted <= run[w].applied

\* C8: a sweep requested for one store runs that store only and answers
\* with one entry, the stats of the requested store.
C8_SubsetSweep ==
    \A w \in Workers :
        sweep[w].kind = "apiStore" =>
            /\ \A i \in 1..Len(sweep[w].ran) : sweep[w].ran[i] = sweep[w].requested
            /\ pc[w] = "idle" =>
                  /\ Len(sweep[w].allStats) = 1
                  /\ response[w].status = 200
                  /\ response[w].stats.store = sweep[w].requested

\* C9: when upserts of a run failed and were caught, COMMIT still makes the
\* other upserts of the run visible: every upsert counted in inserted is
\* persisted.
C9_RowFailureKeepsOthers ==
    \A w \in Workers :
        (pc[w] = "cache" /\ run[w].stats.errors > 0) =>
            /\ run[w].outcome = "committed"
            /\ run[w].applied = run[w].stats.inserted
            /\ run[w].stats.matched = run[w].stats.inserted + run[w].stats.errors

\* rows compared without their scraped_at
SameButScrapedAt(a, b) ==
    /\ Len(a) = Len(b)
    /\ {[a[i] EXCEPT !.scraped_at = 0] : i \in 1..Len(a)} =
       {[b[i] EXCEPT !.scraped_at = 0] : i \in 1..Len(b)}

C11_EmptyRunTouchesNothing ==
    [][\A w \in Workers :
        /\ (pc[w] = "scrape" /\ pc'[w] # "scrape" /\ run'[w].rawProducts = << >>) =>
              /\ pc'[w] = "done"
              /\ run'[w].stats = NewStats(run[w].slug)
              /\ run'[w].log = << >>
              /\ tx' = tx /\ tx[w].status = "none"
              /\ prices' = prices /\ cache' = cache
        /\ (pc[w] = "done" /\ run[w].rawProducts = << >> /\ pc'[w] # "done") =>
              /\ sweep'[w].allStats[Len(sweep'[w].allStats)] = NewStats(run[w].slug)
              /\ tx' = tx /\ tx[w].status = "none"
              /\ prices' = prices /\ cache' = cache]_vars

C11_Witness ==
    /\ pc[1] = "done" /\ run[1].slug = "magnit" /\ run[1].outcome = "empty"
    /\ prices # << >> /\ cache # {}

C13_CacheFailureIsHarmless ==
    [][\A w \in Workers :
        /\ (pc[w] = "cache" /\ pc'[w] # "cache" /\ run'[w].cacheFailed) =>
              /\ pc'[w] = "done"
              /\ prices' = prices
              /\ run'[w].stats = run[w].stats
              /\ run'[w].outcome = run[w].outcome
              /\ run'[w].outcome = "committed" =>
                    /\ run'[w].stats.errors = 0
                    /\ run'[w].stats.inserted = run'[w].applied
        /\ (pc[w] = "done" /\ run[w].cacheFailed /\ pc'[w] # "done") =>
              /\ prices' = prices
              /\ sweep'[w].allStats[Len(sweep'[w].allStats)] = run[w].stats]_vars

C13_Witness ==
    /\ pc[1] = "done" /\ run[1].cacheFailed /\ run[1].outcome = "committed"
    /\ run[1].log[Len(run[1].log)] = "DEL"
    /\ run[1].stats.inserted > 0
    /\ \E i \in 1..Len(prices) : prices[i].store_id = run[1].storeId

\* C14: when a run has committed and its invalidation has succeeded, the
\* cache holds no entry written by getPricesForProducts whose value has a
\* price of the run's store
C14_InvalidationClearsStoreEntries ==
    [][\A w \in Workers :
        (/\ pc[w] = "cache" /\ pc'[w] = "done"
         /\ run'[w].outcome = "committed" /\ ~run'[w].cacheFailed) =>
            \A e \in cache' :
                e.key \in {pricesCacheKey(productIds) : productIds \in RequestedIds} =>
                    \A i \in 1..Len(e.value) : e.value[i].store_id # run[w].storeId]_vars

\* C15: within a sweep a store's run makes its adapter call or sends a
\* statement only when every store before it in the list has returned its
\* stats, so a sweep never has more than one run that has started and not
\* returned, also while another sweep is running
C15_StoresRunInTurn ==
    [][\A w \in Workers :
        (\/ Len(sweep'[w].ran) > Len(sweep[w].ran)
         \/ Len(run'[w].log) > Len(run[w].log)
         \/ tx'[w] # tx[w]) =>
            LET sw == sweep'[w]
                k == Len(sw.ran)
            IN  /\ k >= 1 /\ sw.plan[k] = run'[w].slug /\ sw.i = k
                /\ Len(sw.allStats) = k - 1
                /\ \A j \in 1..(k - 1) : sw.allStats[j].store = sw.plan[j]]_vars

\* the two sweeps are each in the middle of a run with statements sent, one
\* of them past its third store
C15_Witness ==
    /\ run[1].log # << >> /\ run[2].log # << >>
    /\ pc[1] \notin {"idle", "done"} /\ pc[2] \notin {"idle", "done"}
    /\ Len(sweep[1].allStats) = 3 /\ Len(sweep[1].ran) = 4

\* the phase of a run at each point of runStoreScape
Phase(p) ==
    CASE p = "idle" -> 0
      [] p = "scrape" -> 1
      [] p \in {"load", "connect", "begin", "markStale", "upsert", "commit", "rollback"} -> 2
      [] p = "cache" -> 3
      [] p = "done" -> 4

\* the run is in, or has gone through, a catch block for a failed call
Errored(w) ==
    \/ pc[w] = "rollback"
    \/ run[w].outcome \in {"fatal", "rolledback", "rollbackFailed"}

\* the latest run of the sweep has returned stats with an error counted
Returned(w) ==
    /\ pc[w] \in {"idle", "scrape"}
    /\ sweep[w].allStats # << >>
    /\ sweep[w].allStats[Len(sweep[w].allStats)].errors > 0

\* C16: a run goes through Idle, Scraping, Matching+Persisting,
\* CacheInvalidating, Done in that order and never back; a run that has
\* entered a catch block for a failed call sends nothing but the ROLLBACK of
\* its transaction, changes no price row and no cache entry, and goes on to
\* return its stats with the error counted
C16_PhasesInOrder ==
    /\ [][\A w \in Workers :
            /\ pc[w] = "idle" => pc'[w] \in {"idle", "scrape"}
            /\ pc[w] = "done" => pc'[w] \in {"done", "idle", "scrape"}
            /\ pc[w] \notin {"idle", "done"} => Phase(pc'[w]) >= Phase(pc[w])
            /\ Errored(w) =>
                  /\ prices' = prices /\ cache' = cache
                  /\ \/ run'[w].log = run[w].log
                     \/ /\ pc[w] = "rollback"
                        /\ run'[w].log = Append(run[w].log, "ROLLBACK")
                     \/ pc[w] = "done" /\ pc'[w] # "done"
                  /\ pc'[w] \in {"rollback", "done", "idle", "scrape"}
                  /\ pc[w] = "done" => pc'[w] # "rollback"]_vars
    /\ Errored(1) ~> Returned(1)

\* a run whose COMMIT was rejected is in its catch block, after an upsert
C16_Witness ==
    /\ pc[1] = "rollback" /\ run[1].stats.inserted > 0
    /\ run[1].log[Len(run[1].log)] = "COMMIT"

\* C17: an adapter calls its strategies in their priority order and, once
\* one has yielded listings, calls none after it: Pyaterochka calls neither
\* the special offers nor the category catalog after a search that
\* returned listings
C17_StopAfterFirstYield ==
    (adapter.store = "pyaterochka" /\ adapter.searchWorked) =>
        adapter.calls = << "search" >>

\* C18: no pagination loop sends more page requests than the adapters'
\* safety cap, whatever the upstream answers
C18_PaginationCapped ==
    adapter.requests <= PageCap

\* C19: the list an adapter returns has no two listings with one product
\* URL, the listing kept for a URL being the last one processed
C19_ReturnedUrlsDistinct ==
    \A i, j \in 1..Len(adapter.returned) :
        adapter.returned[i].url = adapter.returned[j].url => i = j

\* C20: a response whose body is an HTML challenge or error page is taken
\* as blocked before it is parsed
C20_HtmlIsBlocked ==
    (adapter.body.kind = "string" /\ adapter.body.text \in HtmlPages) =>
        adapter.verdict = "blocked"

\* C21: withRetry calls fn at most maxRetries + 1 times and returns the
\* value of the first call that succeeds without calling fn again; it has
\* waited 2 s, 4 s, 8 s, ... before the second, third, fourth, ... call,
\* does not wait after the last failure, and then throws the error of the
\* last call
C21_BoundedBackoff ==
    /\ retry.invocations <= retry.maxRetries + 1
    /\ \A k \in 1..Len(retry.waits) : retry.waits[k] = 2 ^ k * 1000
    /\ retry.at = "call" =>
          /\ retry.invocations = Len(retry.errors)
          /\ Len(retry.waits) = retry.invocations
    /\ retry.at = "returned" =>
          /\ retry.result = "products" /\ retry.thrown = Null
          /\ retry.invocations = Len(retry.errors) + 1
          /\ Len(retry.waits) = Len(retry.errors)
    /\ retry.at = "threw" =>
          /\ retry.invocations = retry.maxRetries + 1
          /\ Len(retry.errors) = retry.invocations
          /\ Len(retry.waits) = retry.maxRetries
          /\ retry.thrown = retry.errors[Len(retry.errors)]
          /\ retry.result = Null

C21_Witness ==
    /\ retry.at = "threw" /\ retry.maxRetries = 3
    /\ retry.waits = << 2000, 4000, 8000 >>
    /\ retry.thrown = "HTTP 500" /\ retry.errors[1] = "ETIMEDOUT"

\* C22: a fetch of an adapter that fails once is tried again: the step that
\* handles the first failed response of a sub-step leaves the adapter on the
\* same keyword, category and page, with what it held
C22_FailedFetchIsRetried ==
    [][(/\ adapter.at \in {"search", "offers", "catalog", "category"}
        /\ adapter.verdict # "failed"
        /\ adapter'.verdict = "failed")
       => /\ adapter'.at = adapter.at
          /\ adapter'.keyword = adapter.keyword
          /\ adapter'.category = adapter.category
          /\ adapter'.page = adapter.page]_vars

\* C23: findBestMatch never returns a product whose best score over its
\* normalized name and aliases is below 0.65, and it returns a match when
\* the best score of some product is exactly 0.65
C23_ThresholdInclusive ==
    probe.at = "returned" =>
        LET scoreOf == [i \in DOMAIN probe.canonicals |->
                           topScoreOf(probe.normalizedRaw, probe.canonicals[i])]
            returned == {i \in DOMAIN probe.canonicals :
                            probe.canonicals[i].id = probe.bestMatch.productId}
        IN  /\ \A i \in returned : scoreOf[i][1] * 100 >= 65 * scoreOf[i][2]
            /\ (\E i \in DOMAIN probe.canonicals :
                     scoreOf[i][1] * 100 = 65 * scoreOf[i][2])
                => probe.bestMatch # NoMatch

C23_Witness ==
    /\ probe.at = "returned"
    /\ probe.bestMatch = [productId |-> 2, similarity |-> << 26, 40 >>]

\* C24: the product findBestMatch returns has the highest score (the
\* maximum similarity over its name and aliases) of all canonical products,
\* and of the products with that score it is the first in the list
C24_HighestFirstSeen ==
    probe.at = "returned" =>
        LET scoreOf == [i \in DOMAIN probe.canonicals |->
                           topScoreOf(probe.normalizedRaw, probe.canonicals[i])]
        IN  \A i \in DOMAIN probe.canonicals :
                probe.canonicals[i].id = probe.bestMatch.productId =>
                    /\ probe.bestMatch.similarity = scoreOf[i]
                    /\ \A j \in DOMAIN probe.canonicals :
                          /\ scoreOf[i][1] * scoreOf[j][2] >= scoreOf[j][1] * scoreOf[i][2]
                          /\ j < i =>
                                scoreOf[i][1] * scoreOf[j][2] > scoreOf[j][1] * scoreOf[i][2]

C24_Witness ==
    /\ probe.at = "returned"
    /\ probe.rawName = << "m", "i", "l", "k" >>
    /\ Len(probe.canonicals) = 2
    /\ probe.bestMatch.productId = 1
    /\ topScoreOf(probe.normalizedRaw, probe.canonicals[2]) = probe.bestMatch.similarity

\* C25: normalizing a normalized name gives the same name, for every raw
\* name, a digit and a unit separated by a hyphen included
C25_NormalizeIdempotent ==
    probe.at = "normalized" =>
        normalizeForComparison(probe.normalizedRaw) = probe.normalizedRaw

\* C26: a listing whose price is not positive is dropped by its adapter
\* before it reaches the matcher: no adapter holds or returns one
C26_AdaptersDropNonPositive ==
    /\ \A i \in DOMAIN adapter.allProducts : adapter.allProducts[i].price > 0
    /\ \A i \in DOMAIN adapter.returned : adapter.returned[i].price > 0

\* C27: a reader of the prices table never sees the rows of a store in an
\* intermediate state of a run.  While the transaction of the run is open
\* the table holds the rows of the store as they were before the run; the
\* table changes only in the step that commits, and then to the table with
\* the mark-stale UPDATE and every upsert of the run in place
C27_ReadersSeeWholeRuns ==
    /\ [](pc[1] \in {"markStale", "upsert", "commit", "rollback"} =>
            RowsOfSlug(prices, stores, run[1].slug) = run[1].before)
    /\ [][prices' # prices =>
            /\ pc[1] = "commit" /\ pc'[1] = "cache"
            /\ tx[1].status = "active"
            /\ run[1].log[2] = "UPDATE"
            /\ run[1].k > Len(run[1].rawProducts)
            /\ prices' = Visible(prices, tx[1])]_vars

\* a second run of magnit has marked the row of the first run stale and
\* upserted it anew; the table still holds the row as the first run left it
C27_Witness ==
    /\ pc[1] = "commit" /\ tx[1].status = "active" /\ tx[1].upserts > 0
    /\ run[1].before # << >>
    /\ prices # Visible(prices, tx[1])
    /\ \E e \in cache : e.key = pricesCacheKey(<< 1 >>) /\ e.value # << >>

\* C28: at most one sweep is in progress at any time: a trigger that
\* arrives while a sweep is running starts no second sweep
C28_OneSweepAtATime ==
    Cardinality({w \in Workers : pc[w] # "idle"}) <= 1

\* C29: a sub-step of an adapter (a keyword, a category, an endpoint) that
\* fails does not stop the adapter.  No step of a run lets go of a listing held
\* before it, the list returned holds them all, and the step in which a
\* sub-step fails goes on to the next keyword or category when there is one
C29_SoftFailureGoesOn ==
    [][adapter.at # "idle" =>
         LET failed == adapter'.verdict = "failed"
             after == IF adapter.at = "returned" THEN adapter'.returned
                      ELSE adapter'.allProducts
         IN  /\ \A i \in DOMAIN adapter.allProducts :
                   \E j \in DOMAIN after : after[j].url = adapter.allProducts[i].url
             /\ (failed /\ adapter.at = "search" /\ adapter.keyword < MaxKeywords) =>
                   (adapter'.at = "search" /\ adapter'.keyword = adapter.keyword + 1)
             /\ (failed /\ adapter.at \in {"category", "catalog"}
                        /\ adapter.category < MaxCategories) =>
                   /\ adapter'.at = adapter.at /\ adapter'.page = 1
                   /\ adapter'.category = adapter.category + 1
             /\ (failed /\ adapter.at = "page" /\ adapter.attempt = DefaultMaxRetries
                        /\ adapter.category < MaxCategories) =>
                   (adapter'.at = "api" /\ adapter'.category = adapter.category + 1)
             /\ (failed /\ adapter.at = "promo"
                        /\ adapter.category < Len(promoEndpoints)) =>
                   (adapter'.at = "promo" /\ adapter'.category = adapter.category + 1)
             /\ (failed /\ adapter.at = "offers") => adapter'.at = "catalog"]_vars

\* the request of the second page of the first category of magnit was
\* rejected: the adapter is at the second category with the products of
\* the first page
C29_Witness ==
    /\ adapter.store = "magnit" /\ adapter.verdict = "failed"
    /\ adapter.at = "category" /\ adapter.category = 2 /\ adapter.requests = 0
    /\ Len(adapter.allProducts) > 0

\* C30: between any two successive external calls of one adapter run a
\* randomized delay is awaited: a request is only sent when no request was
\* sent before it in the run or a delay has been awaited since the last one
C30_DelayBetweenCalls ==
    [][(/\ adapter.at \in {"search", "offers", "catalog", "category", "api", "page",
                           "stores", "promo", "weekly", "lentaCatalog", "lentaCategory"}
        /\ adapter'.body # adapter.body \/ adapter'.requests # adapter.requests)
       => adapter.delayed]_vars

\* C31: two listings of one adapter run that have no product URL and have
\* different names are both kept: every priced item without a URL in the
\* body just merged (the delay after the merge has been taken) is held
\* under its own name
C31_UrlLessListingsKept ==
    (adapter.verdict = "parsed" /\ adapter.body.kind = "json" /\ adapter.delayed
       /\ adapter.store \in {"pyaterochka", "lenta"}) =>
        \A i \in DOMAIN adapter.body.items :
            LET item == adapter.body.items[i]
            IN  (item.url = Null /\ item.price > 0) =>
                    \E j \in DOMAIN adapter.allProducts :
                        adapter.allProducts[j].storeProductName = item.name

\* C32: the magnitude heuristic (an amount above the cutoff is divided by
\* 100, another is left unchanged; cutoff 5000 for the Perekrestok price,
\* 50000 for the Magnit price) is applied to every price field a listing
\* is returned with: the returned price is the heuristic's value of the raw
\* amount it was taken from, and so is the returned price per unit
C32_MagnitudeOnEveryPrice ==
    (probe.at = "mapped" /\ probe.listing.kept) =>
        LET item == probe.item
            taken == IF item.promo > 0 THEN item.promo
                     ELSE IF item.regular > 0 THEN item.regular ELSE item.price
            cutoff == IF probe.store = "perekrestok" THEN PerekrestokCutoff
                      ELSE MagnitCutoff
            unitCutoff == IF probe.store = "perekrestok" THEN PerekrestokUnitCutoff
                          ELSE MagnitCutoff
        IN  /\ probe.listing.price = magnitude(cutoff, taken)
            /\ item.pricePerUnit > 0 =>
                  probe.listing.pricePerUnit = magnitude(unitCutoff, item.pricePerUnit)

\* C33: the client a store run takes from the pool is released exactly
\* once on every path out of the transaction block (after a commit, after a
\* rollback, when the ROLLBACK itself fails), it is held and not released
\* while the run is in the block, and a run that never reaches the
\* transaction takes no client
C33_ClientReleasedOnce ==
    \A w \in Workers :
        LET r == run[w]
        IN  /\ r.released <= r.acquired /\ r.acquired <= 1
            /\ pc[w] \in {"begin", "markStale", "upsert", "commit", "rollback"} =>
                  r.acquired = 1 /\ r.released = 0
            /\ pc[w] \in {"cache", "done"} =>
                  /\ r.released = r.acquired
                  /\ r.acquired = 1 <=> r.log # << >>
            /\ pc[w] \in {"idle", "scrape", "load", "connect"} => r.acquired = 0

\* a run whose ROLLBACK failed has left the block with its client released
C33_Witness ==
    \E w \in Workers :
        /\ pc[w] = "done"
        /\ run[w].outcome = "rollbackFailed"
        /\ run[w].acquired = 1 /\ run[w].released = 1

\* C34: in the stats of every store run inserted <= matched <= totalScraped,
\* and for a run whose COMMIT went through (whether it kept the rows or
\* discarded them) matched = inserted + errors, the errors being the failed
\* upserts of its rows
C34_StatsOrdered ==
    \A w \in Workers :
        LET r == run[w]
        IN  /\ r.stats.inserted <= r.stats.matched
            /\ r.stats.matched <= r.stats.totalScraped
            /\ r.outcome \in {"committed", "discarded"} =>
                  r.stats.matched = r.stats.inserted + r.stats.errors

\* a run has inserted one row, failed on another and committed
C34_Witness ==
    \E w \in Workers :
        /\ pc[w] = "done"
        /\ run[w].outcome = "discarded"
        /\ run[w].stats.inserted = 1 /\ run[w].stats.errors = 1
        /\ run[w].stats.matched = 2

\* C35: whenever findBestSplit returns a result, storeCount <= maxStores and
\* every item of the split is assigned to a store of the allowed set
C35_AtMostMaxStores ==
    (probe.at = "returned" /\ probe.result.returned) =>
        /\ probe.result.storeCount <= probe.maxStores
        /\ DOMAIN probe.result.storeSplit \subseteq probe.allowedStores

\* C36: the savingsVsSingleStore that findBestSplit returns is never
\* negative
C36_SavingsNotNegative ==
    (probe.at = "returned" /\ probe.result.returned) =>
        probe.result.savingsVsSingleStore >= 0

\* C37: after any sequence of addItem, removeItem, updateQuantity and
\* clearAll the list holds at most one item per productId (addItem of a
\* listed product leaves one item of it), and after updateQuantity the item
\* of the product has a quantity of at least 1
C37_OneItemPerProduct ==
    LET items == shoppingList.items
    IN  /\ \A i \in DOMAIN items, j \in DOMAIN items :
              items[i].productId = items[j].productId => i = j
        /\ shoppingList.last.op = "updateQuantity" =>
              \A i \in DOMAIN items :
                  items[i].productId = shoppingList.last.productId =>
                      items[i].quantity >= 1

\* a product was added twice and is one item of quantity 2; another
\* product's quantity was then set from a number below 1
C37_Witness ==
    LET items == shoppingList.items
    IN  /\ shoppingList.last = [op |-> "updateQuantity", productId |-> 2]
        /\ Len(items) = 2
        /\ items[1] = [productId |-> 1, quantity |-> 3]
        /\ items[2] = [productId |-> 2, quantity |-> 1]

====
